---- MODULE Spec2Model ----
(***************************************************************************)
(* State-machine model of the avatar-engine front end:                     *)
(*   - OptimizedMorphSystem (frontend/src/PerformanceMonitor.js 442-894),  *)
(*   - OptimizedFacialAnimationClient (unnamed/part_002),                  *)
(*   - DeltaCompressor.compress (unnamed/part_001 674-690).                *)
(* Channel values are fixed-point integers in units of 0.0001, so that     *)
(* 1.0 is 10000, the activation epsilon 0.001 is 10 and the preset         *)
(* thresholds 0.05 / 0.01 / 0.001 / 0.0001 are 500 / 100 / 10 / 1.         *)
(***************************************************************************)
EXTENDS Integers, Sequences, FiniteSets, TLC

VARIABLES
    \* ---- OptimizedMorphSystem ----
    morphMap,         \* keys of the Map morphName -> targets on the meshes
    quality,          \* config.quality
    selectiveUpdates, \* config.selectiveUpdates
    lodEnabled,       \* config.lodEnabled
    morphStates,      \* Map morphName -> value
    previousStates,   \* Map morphName -> value at the last tick
    dirtyMorphs,      \* Set of morph names
    activeMorphs,     \* Set of morph names
    influences,       \* mesh.morphTargetInfluences, by morph name
    lodLevel,
    frameCounter,
    skippedUpdates,   \* stats.skippedUpdates
    activeMorphCount, \* stats.activeMorphCount
    last,             \* history: the operation that produced this state
    \* ---- OptimizedFacialAnimationClient ----
    ws,                       \* "none", or the readyState of this.ws
    connected,
    enableInterpolation,      \* config.enableInterpolation
    keyframeBlendshapes,
    targetBlendshapes,
    currentBlendshapes,
    interpolationActive,
    interpolationStartTime,
    interpolationStartValues,
    messagesReceived,         \* stats.messagesReceived
    keyframesReceived,        \* stats.keyframesReceived
    deltasApplied,            \* stats.deltasApplied
    pending,                  \* binary messages being decompressed
    now,                      \* performance.now(), in ms
    stream,                   \* history: the last keyframe and delta handled
    others,                   \* sockets this.ws no longer references, by readyState
    timers,                   \* pending setTimeout(() => this.connect())
    animating,                \* animationFrameId is set: the loop is running
    configQuality,            \* config.quality of the client
    manual,                   \* history: disconnect() was the user's last word
    drops,                    \* history: sockets the network or server closed
    wsSent,                   \* what this.ws.send has carried on the socket of this.ws
    \* ---- PerformanceMonitor ----
    monitorConfig,            \* config: updateInterval, historySize, trackHistory
    frameStartTime,           \* set by begin()
    frameTimes,               \* the last frame times, oldest first
    frameCount,
    lastUpdateTime,
    metrics,                  \* fps, frameTime, frameTimeMin, frameTimeMax, drawCalls, morphUpdates
    history,                  \* one series per history key, oldest first
    gpuTimer,                 \* <<>> without the extension, else <<[query, isRunning]>>
    queries,                  \* the queries gl.createQuery has made, by state
    callbacks,                \* setTimeout callbacks of endGPUTimer that wait
    disposed,                 \* dispose() has been called
    monitorLast,              \* history: what the monitor did last
    \* ---- the producer (DeltaCompressor) ----
    current,                  \* the frame to send
    previous,                 \* the frame it is encoded against
    frameNo,                  \* frames the producer has sent
    encoded,                  \* the delta compress returned last
    sent                      \* messages on the wire, oldest first

morphVars == <<morphMap, quality, selectiveUpdates, lodEnabled, morphStates,
               previousStates, dirtyMorphs, activeMorphs, influences,
               lodLevel, frameCounter, skippedUpdates, activeMorphCount>>

linkVars == <<others, timers, animating, configQuality, manual, drops, wsSent>>

clientVars == <<ws, connected, enableInterpolation, keyframeBlendshapes,
                targetBlendshapes, currentBlendshapes, interpolationActive,
                interpolationStartTime, interpolationStartValues,
                messagesReceived, keyframesReceived, deltasApplied, pending,
                now, stream, linkVars>>

producerVars == <<current, previous, frameNo, encoded, sent>>

monitorVars == <<monitorConfig, frameStartTime, frameTimes, frameCount,
                 lastUpdateTime, metrics, history, gpuTimer, queries,
                 callbacks, disposed, monitorLast>>

vars == <<morphVars, clientVars, producerVars, monitorVars, last>>

----------------------------------------------------------------------------
(* Bounds of the model *)

\* tick() is enabled while frameCounter is below this
MaxFrames == 6
\* a call that would push stats.skippedUpdates beyond this is not taken
MaxSkipped == 1
\* frames of the specifications that only need the tick to have run
FewFrames == 1
\* messages on the wire when the producer captures its next frame
MaxWire == 1
\* longest morphData object handed to updateMorphs
MaxBatch == 2
\* maxActiveMorphs of the presets, scaled down to the model's registry of
\* three morphs (50 / 100 / 266 / 500 in the source), order preserved
CapLow == 1
CapMedium == 2
CapHigh == 3
CapUltra == 4
\* a message that would push stats.messagesReceived beyond this is not taken
MaxMessages == 3
\* most binary messages in decompression at a time
MaxPending == 1
\* the clock stops here (ms)
MaxNow == 33
\* most sockets of one client that are not closed at a time
MaxSockets == 2
\* most reconnect timers pending at a time
MaxTimers == 2
\* sockets the network or the server may close in one behaviour
MaxDrops == 3

----------------------------------------------------------------------------
(* The registry and the inputs *)

\* morph names a mesh may carry in its morphTargetDictionary
MorphNames == {"V_Open", "Brow_L", "Cheek_R"}
\* config.priorityMorphs, restricted to the names the model uses
PriorityMorphs == {"V_Open", "V_AA"}
\* values a caller may pass (0, 0.0008, 0.06)
MorphValues == {0, 8, 600}
Qualities == {"low", "medium", "high", "ultra"}
\* camera distances handed to updateLOD
Distances == {1, 4, 9, 25}

Abs(x) == IF x < 0 THEN -x ELSE x

qualityPresets(q) ==
    CASE q = "low"    -> [morphUpdateThreshold |-> 500, maxActiveMorphs |-> CapLow,
                          lodDistances |-> <<2, 5, 10>>, updateFrequency |-> 3]
      [] q = "medium" -> [morphUpdateThreshold |-> 100, maxActiveMorphs |-> CapMedium,
                          lodDistances |-> <<3, 8, 15>>, updateFrequency |-> 2]
      [] q = "high"   -> [morphUpdateThreshold |-> 10, maxActiveMorphs |-> CapHigh,
                          lodDistances |-> <<5, 12, 20>>, updateFrequency |-> 1]
      [] q = "ultra"  -> [morphUpdateThreshold |-> 1, maxActiveMorphs |-> CapUltra,
                          lodDistances |-> <<10, 20, 30>>, updateFrequency |-> 1]

----------------------------------------------------------------------------
(* OptimizedMorphSystem: setMorph and updateMorphs as functions of the     *)
(* part of the state they read and write                                   *)

MorphSys ==
    [morphStates |-> morphStates, dirtyMorphs |-> dirtyMorphs,
     activeMorphs |-> activeMorphs, skippedUpdates |-> skippedUpdates,
     ret |-> FALSE]

\* the threshold test against 0 in place of the stored value
belowThreshold_IgnoresStored(s, morphName, value, force) ==
    /\ ~force
    /\ selectiveUpdates
    /\ Abs(value) < qualityPresets(quality).morphUpdateThreshold

\* "Early exit for negligible changes"
belowThreshold(s, morphName, value, force) ==
    /\ ~force
    /\ selectiveUpdates
    /\ Abs(value - s.morphStates[morphName]) < qualityPresets(quality).morphUpdateThreshold

\* the limit letting the active set grow one past maxActiveMorphs
overActiveLimit_OnePast(s, morphName, value, force) ==
    /\ ~force
    /\ value > 0
    /\ morphName \notin s.activeMorphs
    /\ Cardinality(s.activeMorphs) > qualityPresets(quality).maxActiveMorphs
    /\ morphName \notin PriorityMorphs

\* the limit holding back a morph that is already active as well
overActiveLimit_ActiveHeldBack(s, morphName, value, force) ==
    /\ ~force
    /\ value > 0
    /\ Cardinality(s.activeMorphs) >= qualityPresets(quality).maxActiveMorphs
    /\ morphName \notin PriorityMorphs

\* the limit without the exemption of the priority morphs
overActiveLimit_NoPriorityExemption(s, morphName, value, force) ==
    /\ ~force
    /\ value > 0
    /\ morphName \notin s.activeMorphs
    /\ Cardinality(s.activeMorphs) >= qualityPresets(quality).maxActiveMorphs

\* "Check active morph limit"
overActiveLimit(s, morphName, value, force) ==
    /\ ~force
    /\ value > 0
    /\ morphName \notin s.activeMorphs
    /\ Cardinality(s.activeMorphs) >= qualityPresets(quality).maxActiveMorphs
    /\ morphName \notin PriorityMorphs

\* the active set taking a morph in at 0.001 already
trackActive_AtEpsilon(active, morphName, value) ==
    IF value >= 10 THEN active \cup {morphName} ELSE active \ {morphName}

\* "Track active morphs"
trackActive(active, morphName, value) ==
    IF value > 10 THEN active \cup {morphName} ELSE active \ {morphName}

\* setMorph counting a name the registry lacks as a skipped update
setMorph_UnknownCounted(s, morphName, value, force) ==
    IF morphName \notin morphMap
    THEN [s EXCEPT !.skippedUpdates = @ + 1, !.ret = FALSE]
    ELSE IF belowThreshold(s, morphName, value, force)
         THEN [s EXCEPT !.skippedUpdates = @ + 1, !.ret = FALSE]
    ELSE IF overActiveLimit(s, morphName, value, force)
         THEN [s EXCEPT !.skippedUpdates = @ + 1, !.ret = FALSE]
    ELSE [s EXCEPT !.morphStates[morphName] = value,
                   !.dirtyMorphs = @ \cup {morphName},
                   !.activeMorphs = trackActive(@, morphName, value),
                   !.ret = TRUE]

setMorph(s, morphName, value, force) ==
    IF morphName \notin morphMap THEN [s EXCEPT !.ret = FALSE]
    ELSE IF belowThreshold(s, morphName, value, force)
         THEN [s EXCEPT !.skippedUpdates = @ + 1, !.ret = FALSE]
    ELSE IF overActiveLimit(s, morphName, value, force)
         THEN [s EXCEPT !.skippedUpdates = @ + 1, !.ret = FALSE]
    ELSE [s EXCEPT !.morphStates[morphName] = value,
                   !.dirtyMorphs = @ \cup {morphName},
                   !.activeMorphs = trackActive(@, morphName, value),
                   !.ret = TRUE]

\* Array.prototype.sort is stable: priority entries first, each group in
\* the order of Object.entries
isPriorityEntry(e) == e[1] \in PriorityMorphs
isOtherEntry(e) == e[1] \notin PriorityMorphs
sortedEntries(morphData) ==
    SelectSeq(morphData, isPriorityEntry) \o SelectSeq(morphData, isOtherEntry)

\* sortedEntries.forEach: the state after the entries, and the names for
\* which setMorph returned true, in order
RECURSIVE forEachSetMorph(_, _, _)
forEachSetMorph(s, entries, updates) ==
    IF entries = <<>> THEN [state |-> s, updates |-> updates]
    ELSE LET e == Head(entries)
             r == setMorph(s, e[1], e[2], FALSE)
         IN forEachSetMorph(r, Tail(entries),
                            IF r.ret THEN Append(updates, e[1]) ELSE updates)

updateMorphs(s, morphData) == forEachSetMorph(s, sortedEntries(morphData), <<>>)

----------------------------------------------------------------------------
(* OptimizedMorphSystem: the frame tick                                    *)

\* the frame check on the counter as it was before tick() incremented it
shouldUpdateMorph_CounterBefore(morphName, counter) ==
    IF morphName \in PriorityMorphs THEN TRUE
    ELSE IF (counter - 1) % qualityPresets(quality).updateFrequency # 0 THEN FALSE
    ELSE IF lodEnabled /\ lodLevel > 1 THEN morphName \in PriorityMorphs
    ELSE TRUE

\* the frame check placed before the priority check
shouldUpdateMorph_FrameFirst(morphName, counter) ==
    IF counter % qualityPresets(quality).updateFrequency # 0 THEN FALSE
    ELSE IF morphName \in PriorityMorphs THEN TRUE
    ELSE IF lodEnabled /\ lodLevel > 1 THEN morphName \in PriorityMorphs
    ELSE TRUE

shouldUpdateMorph(morphName, counter) ==
    IF morphName \in PriorityMorphs THEN TRUE
    ELSE IF counter % qualityPresets(quality).updateFrequency # 0 THEN FALSE
    ELSE IF lodEnabled /\ lodLevel > 1 THEN morphName \in PriorityMorphs
    ELSE TRUE

\* processDirtyMorphs: applyMorph writes the stored value to the mesh
processDirtyMorphs(counter) ==
    /\ influences' = [m \in morphMap |->
                        IF m \in dirtyMorphs /\ shouldUpdateMorph(m, counter)
                        THEN morphStates[m] ELSE influences[m]]
    /\ dirtyMorphs' = {}

lodLevelFor_AtThresholdStays(distance) ==
    LET d == qualityPresets(quality).lodDistances
    IN IF ~lodEnabled THEN 0
       ELSE IF distance <= d[1] THEN 0
       ELSE IF distance <= d[2] THEN 1
       ELSE IF distance <= d[3] THEN 2
       ELSE 3

lodLevelFor(distance) ==
    LET d == qualityPresets(quality).lodDistances
    IN IF ~lodEnabled THEN 0
       ELSE IF distance < d[1] THEN 0
       ELSE IF distance < d[2] THEN 1
       ELSE IF distance < d[3] THEN 2
       ELSE 3

----------------------------------------------------------------------------
(* Actions of the morph system                                             *)

MorphInit(registry, qualities, selective, lod) ==
    /\ morphMap = registry
    /\ quality \in qualities
    /\ selectiveUpdates \in selective
    /\ lodEnabled \in lod
    /\ morphStates = [m \in morphMap |-> 0]
    /\ previousStates = [m \in morphMap |-> 0]
    /\ dirtyMorphs = {}
    /\ activeMorphs = {}
    /\ influences = [m \in morphMap |-> 0]
    /\ lodLevel = 0
    /\ frameCounter = 0
    /\ skippedUpdates = 0
    /\ activeMorphCount = 0

\* the part of the state setMorph and updateMorphs may write
MorphCore ==
    [morphStates |-> morphStates, dirtyMorphs |-> dirtyMorphs,
     activeMorphs |-> activeMorphs, skippedUpdates |-> skippedUpdates,
     activeMorphCount |-> activeMorphCount]

\* history of the last operation: its name and result, and what the
\* properties below need of its inputs and of the state it started from
NoDetail == [op |-> "", ret |-> FALSE, updates |-> {}, prio |-> {},
             full |-> FALSE, unknown |-> {}, dirty |-> {}, expect |-> <<>>,
             same |-> TRUE, name |-> "", value |-> 0, force |-> FALSE,
             idle |-> 0]

knownEntries(morphData) ==
    LET known(e) == e[1] \in morphMap IN SelectSeq(morphData, known)

Range(f) == {f[i] : i \in DOMAIN f}

capReached == Cardinality(activeMorphs) >= qualityPresets(quality).maxActiveMorphs

SetMorph(morphName, value, force) ==
    \E r \in {setMorph(MorphSys, morphName, value, force)} :
       /\ r.skippedUpdates <= MaxSkipped
       /\ morphStates' = r.morphStates
       /\ dirtyMorphs' = r.dirtyMorphs
       /\ activeMorphs' = r.activeMorphs
       /\ skippedUpdates' = r.skippedUpdates
       /\ last' = [NoDetail EXCEPT
                     !.op = "setMorph", !.ret = r.ret,
                     !.name = morphName, !.value = value, !.force = force,
                     !.unknown = {morphName} \ morphMap,
                     !.expect = IF morphName \in morphMap THEN <<>>
                                ELSE <<MorphCore>>]
       /\ UNCHANGED <<clientVars, producerVars, monitorVars, morphMap, quality, selectiveUpdates, lodEnabled,
                      previousStates, influences, lodLevel, frameCounter,
                      activeMorphCount>>

\* what updateMorphs leaves behind, as a MorphCore
coreAfter(r) ==
    [morphStates |-> r.state.morphStates, dirtyMorphs |-> r.state.dirtyMorphs,
     activeMorphs |-> r.state.activeMorphs,
     skippedUpdates |-> r.state.skippedUpdates,
     activeMorphCount |-> Cardinality(r.state.activeMorphs)]

UpdateMorphs(morphData) ==
    \E r \in {updateMorphs(MorphSys, morphData)} :
    \E c \in {coreAfter(r)} :
    \E k \in {updateMorphs(MorphSys, knownEntries(morphData))} :
       /\ c.skippedUpdates <= MaxSkipped
       /\ morphStates' = c.morphStates
       /\ dirtyMorphs' = c.dirtyMorphs
       /\ activeMorphs' = c.activeMorphs
       /\ skippedUpdates' = c.skippedUpdates
       /\ activeMorphCount' = c.activeMorphCount
       /\ last' = [NoDetail EXCEPT
                     !.op = "updateMorphs",
                     !.ret = r.updates # <<>>,
                     !.same = (r.updates = k.updates),
                     !.updates = Range(r.updates),
                     !.prio = {<<e[1], e[2], morphStates[e[1]]>> :
                                 e \in {x \in Range(morphData) :
                                          x[1] \in PriorityMorphs \cap morphMap}},
                     !.full = capReached,
                     !.unknown = {e[1] : e \in Range(morphData)} \ morphMap,
                     !.expect = <<coreAfter(k)>>]
       /\ UNCHANGED <<clientVars, producerVars, monitorVars, morphMap, quality, selectiveUpdates, lodEnabled,
                      previousStates, influences, lodLevel, frameCounter>>

Tick ==
    /\ frameCounter < MaxFrames
    /\ frameCounter' = frameCounter + 1
    /\ processDirtyMorphs(frameCounter + 1)
    /\ previousStates' = morphStates
    /\ last' = [NoDetail EXCEPT !.op = "tick",
                                !.dirty = dirtyMorphs \cap PriorityMorphs,
                                !.idle = last.idle + 1]
    /\ UNCHANGED <<clientVars, producerVars, monitorVars, morphMap, quality, selectiveUpdates, lodEnabled,
                   morphStates, activeMorphs, lodLevel, skippedUpdates,
                   activeMorphCount>>

UpdateLOD(distance) ==
    /\ lodLevel' = lodLevelFor(distance)
    /\ last' = [NoDetail EXCEPT !.op = "updateLOD", !.value = distance,
                                !.idle = last.idle]
    /\ UNCHANGED <<clientVars, producerVars, monitorVars, morphMap, quality, selectiveUpdates, lodEnabled,
                   morphStates, previousStates, dirtyMorphs, activeMorphs,
                   influences, frameCounter, skippedUpdates, activeMorphCount>>

ResetAll ==
    /\ morphStates' = [m \in morphMap |-> 0]
    /\ dirtyMorphs' = {}
    /\ activeMorphs' = {}
    /\ influences' = [m \in morphMap |-> 0]
    /\ activeMorphCount' = 0
    /\ last' = [NoDetail EXCEPT !.op = "resetAll"]
    /\ UNCHANGED <<clientVars, producerVars, monitorVars, morphMap, quality, selectiveUpdates, lodEnabled,
                   previousStates, lodLevel, frameCounter, skippedUpdates>>

\* previousValue + (targetValue - previousValue) * alpha, alpha in units of
\* 0.0001
interpolatedValue(previousValue, targetValue, alpha) ==
    previousValue + ((targetValue - previousValue) * alpha) \div 10000

\* interpolateMorphs(alpha): every morph state, whatever the scheduler says
InterpolateMorphs(alpha) ==
    /\ influences' = [m \in morphMap |->
                        interpolatedValue(previousStates[m], morphStates[m], alpha)]
    /\ last' = [NoDetail EXCEPT !.op = "interpolateMorphs", !.value = alpha,
                                !.idle = last.idle]
    /\ UNCHANGED <<clientVars, producerVars, monitorVars, morphMap, quality, selectiveUpdates, lodEnabled,
                   morphStates, previousStates, dirtyMorphs, activeMorphs,
                   lodLevel, frameCounter, skippedUpdates, activeMorphCount>>

\* setQuality dropping the morphs that wait for a tick
SetQuality_ClearsDirty(q) ==
    /\ q \in Qualities
    /\ quality' = q
    /\ dirtyMorphs' = {}
    /\ last' = [NoDetail EXCEPT !.op = "setQuality", !.idle = last.idle]
    /\ UNCHANGED <<clientVars, producerVars, monitorVars, morphMap, selectiveUpdates, lodEnabled, morphStates,
                   previousStates, activeMorphs, influences,
                   lodLevel, frameCounter, skippedUpdates, activeMorphCount>>

SetQuality(q) ==
    /\ q \in Qualities
    /\ quality' = q
    /\ last' = [NoDetail EXCEPT !.op = "setQuality", !.idle = last.idle]
    /\ UNCHANGED <<clientVars, producerVars, monitorVars, morphMap, selectiveUpdates, lodEnabled, morphStates,
                   previousStates, dirtyMorphs, activeMorphs, influences,
                   lodLevel, frameCounter, skippedUpdates, activeMorphCount>>

\* average fps a performance report may show
FpsReports == {20, 40, 60}

\* one round of the "Dynamic Quality Adjustment" loop of the optimisation
\* guide: the report of a window of 5 s decides the preset
AdjustQuality(fps) ==
    IF fps < 30 /\ quality # "low" THEN SetQuality("low")
    ELSE IF fps > 55 /\ quality = "low" THEN SetQuality("medium")
    ELSE UNCHANGED vars

----------------------------------------------------------------------------
(* OptimizedFacialAnimationClient                                          *)

\* channel names on the wire
Channels == {"A", "B"}

\* a JS object holding channel values: a function on a subset of Channels
EmptyMap == [c \in {} |-> 0]
valueOr0(map, c) == IF c \in DOMAIN map THEN map[c] ELSE 0

ClientCore ==
    [keyframeBlendshapes |-> keyframeBlendshapes,
     targetBlendshapes |-> targetBlendshapes,
     currentBlendshapes |-> currentBlendshapes,
     interpolationActive |-> interpolationActive,
     interpolationStartTime |-> interpolationStartTime,
     interpolationStartValues |-> interpolationStartValues,
     messagesReceived |-> messagesReceived,
     keyframesReceived |-> keyframesReceived,
     deltasApplied |-> deltasApplied]

\* startInterpolation leaving the start values of the transition in flight
startInterpolation_KeepStart(c, t) ==
    [c EXCEPT !.interpolationActive = TRUE,
              !.interpolationStartTime = t]

startInterpolation(c, t) ==
    [c EXCEPT !.interpolationActive = TRUE,
              !.interpolationStartTime = t,
              !.interpolationStartValues = c.currentBlendshapes]

\* the entries of data assigned only where base lacks the key
assignEntries_BaseWins(base, data) ==
    [m \in DOMAIN base \cup DOMAIN data |->
        IF m \in DOMAIN base THEN base[m] ELSE data[m]]

\* { ...base } followed by base[morph] = value for every entry of data
assignEntries(base, data) ==
    [m \in DOMAIN base \cup DOMAIN data |->
        IF m \in DOMAIN data THEN data[m] ELSE base[m]]

\* the delta branch with the entries assigned onto the previous target
applyCompression_OntoTarget(c, compression) ==
    IF compression.type = "keyframe"
    THEN [c EXCEPT !.keyframeBlendshapes = compression.data,
                   !.targetBlendshapes = compression.data,
                   !.keyframesReceived = @ + 1]
    ELSE IF compression.type = "delta"
    THEN [c EXCEPT !.targetBlendshapes =
                       assignEntries(c.targetBlendshapes, compression.data),
                   !.deltasApplied = @ + 1]
    ELSE c

\* "Apply compression data"
applyCompression(c, compression) ==
    IF compression.type = "keyframe"
    THEN [c EXCEPT !.keyframeBlendshapes = compression.data,
                   !.targetBlendshapes = compression.data,
                   !.keyframesReceived = @ + 1]
    ELSE IF compression.type = "delta"
    THEN [c EXCEPT !.targetBlendshapes =
                       assignEntries(c.keyframeBlendshapes, compression.data),
                   !.deltasApplied = @ + 1]
    ELSE c

\* data.compression is <<>> when the message carries none
handleBlendshapeUpdate(c, data, t) ==
    IF data.compression = <<>> THEN c
    ELSE LET applied == applyCompression(c, data.compression[1])
         IN IF enableInterpolation
            THEN startInterpolation(applied, t)
            ELSE [applied EXCEPT !.currentBlendshapes = applied.targetBlendshapes]

\* handleMessage counting the message before it is parsed
handleMessage_CountFirst(c, msg, t) ==
    IF ~msg.ok THEN [c EXCEPT !.messagesReceived = @ + 1]
    ELSE LET counted == [c EXCEPT !.messagesReceived = @ + 1]
         IN IF msg.type = "blendshape_update"
            THEN handleBlendshapeUpdate(counted, msg, t)
            ELSE counted

\* handleMessage from the parse on (for a binary message: once decompressGzip
\* has settled). A text that JSON.parse rejects throws out of the handler, a
\* binary that fails to decompress or parse is caught and returned from:
\* both before anything is written.
handleMessage(c, msg, t) ==
    IF ~msg.ok THEN c
    ELSE LET counted == [c EXCEPT !.messagesReceived = @ + 1]
         IN IF msg.type = "blendshape_update"
            THEN handleBlendshapeUpdate(counted, msg, t)
            ELSE counted

\* the eased progress after `elapsed` ms of a transition, as a fraction
\* easedNum / easedDen of the way: t = min(elapsed / duration, 1),
\* 4t^3 below one half and 1 + (2t - 2)^3 / 2 from there
interpolationDuration == 33
easedDen == interpolationDuration * interpolationDuration * interpolationDuration
\* the ease-in with a square in place of the cube
easedNum_SquareEaseIn(elapsed) ==
    LET e == IF elapsed > interpolationDuration THEN interpolationDuration
             ELSE elapsed
    IN IF 2 * e < interpolationDuration
       THEN 4 * e * e * interpolationDuration
       ELSE easedDen + 4 * (e - interpolationDuration) * (e - interpolationDuration)
                         * (e - interpolationDuration)

easedNum(elapsed) ==
    LET e == IF elapsed > interpolationDuration THEN interpolationDuration
             ELSE elapsed
    IN IF 2 * e < interpolationDuration
       THEN 4 * e * e * e
       ELSE easedDen + 4 * (e - interpolationDuration) * (e - interpolationDuration)
                         * (e - interpolationDuration)

\* a / b rounded to the nearest unit of the fixed-point grid
RoundDiv(a, b) == (2 * a + b) \div (2 * b)

\* updateInterpolation completing only after the duration has passed
updateInterpolation_StrictEnd(c, t) ==
    IF ~c.interpolationActive THEN c
    ELSE LET elapsed == t - c.interpolationStartTime
             allMorphs == DOMAIN c.interpolationStartValues
                            \cup DOMAIN c.targetBlendshapes
             interpolated ==
                 [m \in allMorphs |->
                    LET startValue == valueOr0(c.interpolationStartValues, m)
                        targetValue == valueOr0(c.targetBlendshapes, m)
                    IN startValue + RoundDiv((targetValue - startValue)
                                                * easedNum(elapsed), easedDen)]
         IN IF elapsed > interpolationDuration
            THEN [c EXCEPT !.interpolationActive = FALSE,
                           !.currentBlendshapes = c.targetBlendshapes]
            ELSE [c EXCEPT !.currentBlendshapes = interpolated]

updateInterpolation(c, t) ==
    IF ~c.interpolationActive THEN c
    ELSE LET elapsed == t - c.interpolationStartTime
             allMorphs == DOMAIN c.interpolationStartValues
                            \cup DOMAIN c.targetBlendshapes
             interpolated ==
                 [m \in allMorphs |->
                    LET startValue == valueOr0(c.interpolationStartValues, m)
                        targetValue == valueOr0(c.targetBlendshapes, m)
                    IN startValue + RoundDiv((targetValue - startValue)
                                                * easedNum(elapsed), easedDen)]
         IN IF elapsed >= interpolationDuration
            THEN [c EXCEPT !.interpolationActive = FALSE,
                           !.currentBlendshapes = c.targetBlendshapes]
            ELSE [c EXCEPT !.currentBlendshapes = interpolated]

\* nothing sent yet on the socket of this.ws: no first message, and no
\* quality the server has been told
NothingSent == [first |-> <<>>, quality |-> "none"]

\* the message of onopen and the message of setQuality
configMessage(q, interpolation) ==
    [type |-> "set_performance_config",
     config |-> [enable_compression |-> TRUE,
                 enable_interpolation |-> interpolation,
                 quality |-> q]]
qualityMessage(q) ==
    [type |-> "set_performance_config", config |-> [quality |-> q]]

\* sendMessage handing the message to a socket that is still connecting
sendMessage_WhileConnecting(readyState, sentSoFar, message) ==
    IF readyState \in {"open", "connecting"}
    THEN [first |-> IF sentSoFar.first = <<>> THEN <<message>>
                    ELSE sentSoFar.first,
          quality |-> message.config.quality]
    ELSE sentSoFar

\* sendMessage(message): ws.send if this.ws is there and OPEN, else nothing
sendMessage(readyState, sentSoFar, message) ==
    IF readyState = "open"
    THEN [first |-> IF sentSoFar.first = <<>> THEN <<message>>
                    ELSE sentSoFar.first,
          quality |-> message.config.quality]
    ELSE sentSoFar

\* no socket besides the one this.ws references
NoSockets == [connecting |-> 0, open |-> 0, closing |-> 0]

ClientInit(interpolation) ==
    /\ ws = "none"
    /\ connected = FALSE
    /\ enableInterpolation \in interpolation
    /\ keyframeBlendshapes = EmptyMap
    /\ targetBlendshapes = EmptyMap
    /\ currentBlendshapes = EmptyMap
    /\ interpolationActive = FALSE
    /\ interpolationStartTime = 0
    /\ interpolationStartValues = EmptyMap
    /\ messagesReceived = 0
    /\ keyframesReceived = 0
    /\ deltasApplied = 0
    /\ pending = {}
    /\ now = 0
    /\ stream = [keyframe |-> <<>>, delta |-> <<>>, op |-> "init",
                 before |-> <<>>]
    /\ others = NoSockets
    /\ timers = 0
    /\ animating = TRUE
    /\ configQuality = "high"
    /\ manual = FALSE
    /\ drops = 0
    /\ wsSent = NothingSent

\* the history of the stream after `msg` has been handled from state `c`
streamAfter(c, msg) ==
    LET comp == IF msg.ok /\ msg.type = "blendshape_update"
                   /\ msg.compression # <<>>
                THEN msg.compression[1].type ELSE "none"
    IN [keyframe |-> IF comp = "keyframe" THEN <<msg.compression[1].data>>
                     ELSE stream.keyframe,
        delta |-> IF comp = "keyframe" THEN <<>>
                  ELSE IF comp = "delta" THEN <<msg.compression[1].data>>
                  ELSE stream.delta,
        op |-> IF ~msg.ok THEN "dropped" ELSE comp,
        before |-> IF ~msg.ok \/ (comp = "delta" /\ stream.keyframe = <<>>)
                   THEN <<c>> ELSE <<>>]

setClientCore(c) ==
    /\ keyframeBlendshapes' = c.keyframeBlendshapes
    /\ targetBlendshapes' = c.targetBlendshapes
    /\ currentBlendshapes' = c.currentBlendshapes
    /\ interpolationActive' = c.interpolationActive
    /\ interpolationStartTime' = c.interpolationStartTime
    /\ interpolationStartValues' = c.interpolationStartValues
    /\ messagesReceived' = c.messagesReceived
    /\ keyframesReceived' = c.keyframesReceived
    /\ deltasApplied' = c.deltasApplied

\* sockets of the client that are not closed, the one of this.ws included
liveSockets ==
    others.connecting + others.open + others.closing
        + (IF ws \in {"connecting", "open"} THEN 1 ELSE 0)

\* connect() past its test of this.ws.readyState: this.ws is a new
\* WebSocket, and the socket it referenced lives on with its handlers
newWebSocket ==
    /\ ws # "open"
    /\ liveSockets < MaxSockets
    /\ ws' = "connecting"
    /\ others' = IF ws = "connecting"
                 THEN [others EXCEPT !.connecting = @ + 1] ELSE others
    /\ wsSent' = NothingSent

\* connect() called by the user: a new WebSocket unless the current one is open
Connect ==
    /\ newWebSocket
    /\ manual' = FALSE
    /\ UNCHANGED <<timers, animating, configQuality, drops>>
    /\ stream' = [stream EXCEPT !.op = "connect", !.before = <<>>]
    /\ UNCHANGED <<connected, enableInterpolation, keyframeBlendshapes,
                   targetBlendshapes, currentBlendshapes, interpolationActive,
                   interpolationStartTime, interpolationStartValues,
                   messagesReceived, keyframesReceived, deltasApplied,
                   pending, now>>
    /\ UNCHANGED <<morphVars, producerVars, monitorVars, last>>

\* ws.onopen
OnOpen ==
    /\ ws = "connecting"
    /\ ws' = "open"
    /\ connected' = TRUE
    /\ wsSent' = sendMessage("open", wsSent,
                             configMessage(configQuality, enableInterpolation))
    /\ stream' = [stream EXCEPT !.op = "open", !.before = <<>>]
    /\ UNCHANGED <<enableInterpolation, keyframeBlendshapes,
                   targetBlendshapes, currentBlendshapes, interpolationActive,
                   interpolationStartTime, interpolationStartValues,
                   messagesReceived, keyframesReceived, deltasApplied,
                   pending, now>>
    /\ UNCHANGED <<morphVars, producerVars, monitorVars, last>>
    /\ UNCHANGED <<others, timers, animating, configQuality, manual, drops>>

\* ws.onmessage with a text message: handled at once
OnTextMessage(msg) ==
    /\ ws = "open"
    /\ msg.kind = "text"
    /\ \E c \in {handleMessage(ClientCore, msg, now)} :
          /\ c.messagesReceived <= MaxMessages
          /\ setClientCore(c)
    /\ stream' = streamAfter(ClientCore, msg)
    /\ UNCHANGED <<ws, connected, enableInterpolation, pending, now>>
    /\ UNCHANGED <<morphVars, producerVars, monitorVars, last>>
    /\ UNCHANGED linkVars

\* ws.onmessage with a binary message: handleMessage awaits decompressGzip
OnBinaryMessage(msg) ==
    /\ ws = "open"
    /\ msg.kind = "binary"
    /\ msg \notin pending
    /\ Cardinality(pending) < MaxPending
    /\ pending' = pending \cup {msg}
    /\ stream' = [stream EXCEPT !.op = "await", !.before = <<>>]
    /\ UNCHANGED <<ws, connected, enableInterpolation, keyframeBlendshapes,
                   targetBlendshapes, currentBlendshapes, interpolationActive,
                   interpolationStartTime, interpolationStartValues,
                   messagesReceived, keyframesReceived, deltasApplied, now>>
    /\ UNCHANGED <<morphVars, producerVars, monitorVars, last>>
    /\ UNCHANGED linkVars

\* decompressGzip settles for one of the messages being decompressed
OnDecompressed(msg) ==
    /\ msg \in pending
    /\ pending' = pending \ {msg}
    /\ \E c \in {handleMessage(ClientCore, msg, now)} :
          /\ c.messagesReceived <= MaxMessages
          /\ setClientCore(c)
    /\ stream' = streamAfter(ClientCore, msg)
    /\ UNCHANGED <<ws, connected, enableInterpolation, now>>
    /\ UNCHANGED <<morphVars, producerVars, monitorVars, last>>
    /\ UNCHANGED linkVars

\* one turn of the requestAnimationFrame loop
AnimationFrame ==
    /\ animating
    /\ setClientCore(updateInterpolation(ClientCore, now))
    /\ stream' = [stream EXCEPT !.op = "frame", !.before = <<>>]
    /\ UNCHANGED <<ws, connected, enableInterpolation, pending, now>>
    /\ UNCHANGED <<morphVars, producerVars, monitorVars, last>>
    /\ UNCHANGED linkVars

\* time passes
AdvanceTime(ms) ==
    /\ now + ms <= MaxNow
    /\ now' = now + ms
    /\ stream' = [stream EXCEPT !.op = "time", !.before = <<>>]
    /\ UNCHANGED <<ws, connected, enableInterpolation, keyframeBlendshapes,
                   targetBlendshapes, currentBlendshapes, interpolationActive,
                   interpolationStartTime, interpolationStartValues,
                   messagesReceived, keyframesReceived, deltasApplied, pending>>
    /\ UNCHANGED <<morphVars, producerVars, monitorVars, last>>
    /\ UNCHANGED linkVars

\* what the link actions leave alone: the stream, its statistics, the clock
streamVars == <<enableInterpolation, keyframeBlendshapes, targetBlendshapes,
                currentBlendshapes, interpolationActive,
                interpolationStartTime, interpolationStartValues,
                messagesReceived, keyframesReceived, deltasApplied, pending,
                now>>

\* the reconnect timer of an onclose fires: connect()
TimerConnect ==
    /\ timers > 0
    /\ timers' = timers - 1
    /\ IF ws = "open" THEN UNCHANGED <<ws, others, wsSent>> ELSE newWebSocket
    /\ stream' = [stream EXCEPT !.op = "timer", !.before = <<>>]
    /\ UNCHANGED <<connected, animating, configQuality, manual, drops>>
    /\ UNCHANGED streamVars
    /\ UNCHANGED <<morphVars, producerVars, monitorVars, last>>

\* onopen of a socket this.ws no longer references
OtherOpen ==
    /\ others.connecting > 0
    /\ others' = [others EXCEPT !.connecting = @ - 1, !.open = @ + 1]
    /\ connected' = TRUE
    /\ wsSent' = sendMessage(ws, wsSent,
                             configMessage(configQuality, enableInterpolation))
    /\ stream' = [stream EXCEPT !.op = "otherOpen", !.before = <<>>]
    /\ UNCHANGED <<ws, timers, animating, configQuality, manual, drops>>
    /\ UNCHANGED streamVars
    /\ UNCHANGED <<morphVars, producerVars, monitorVars, last>>

\* the socket of this.ws fails to connect or is dropped: ws.onclose
OnClose ==
    /\ ws \in {"connecting", "open"}
    /\ drops < MaxDrops
    /\ timers < MaxTimers
    /\ ws' = "closed"
    /\ connected' = FALSE
    /\ timers' = timers + 1
    /\ drops' = drops + 1
    /\ stream' = [stream EXCEPT !.op = "close", !.before = <<>>]
    /\ UNCHANGED <<others, animating, configQuality, manual, wsSent>>
    /\ UNCHANGED streamVars
    /\ UNCHANGED <<morphVars, producerVars, monitorVars, last>>

\* onclose of a socket this.ws no longer references: one that close() is
\* closing, or one the network or the server drops
OtherClose(state) ==
    /\ others[state] > 0
    /\ state # "closing" => drops < MaxDrops
    /\ timers < MaxTimers
    /\ others' = [others EXCEPT ![state] = @ - 1]
    /\ connected' = FALSE
    /\ timers' = timers + 1
    /\ drops' = IF state = "closing" THEN drops ELSE drops + 1
    /\ stream' = [stream EXCEPT !.op = "otherClose", !.before = <<>>]
    /\ UNCHANGED <<ws, animating, configQuality, manual, wsSent>>
    /\ UNCHANGED streamVars
    /\ UNCHANGED <<morphVars, producerVars, monitorVars, last>>

\* disconnect(): close() on the socket, this.ws = null, the loop stopped
Disconnect ==
    /\ others' = IF ws \in {"connecting", "open"}
                 THEN [others EXCEPT !.closing = @ + 1] ELSE others
    /\ ws' = "none"
    /\ animating' = FALSE
    /\ connected' = FALSE
    /\ manual' = TRUE
    /\ wsSent' = NothingSent
    /\ stream' = [stream EXCEPT !.op = "disconnect", !.before = <<>>]
    /\ UNCHANGED <<timers, configQuality, drops>>
    /\ UNCHANGED streamVars
    /\ UNCHANGED <<morphVars, producerVars, monitorVars, last>>

\* setQuality(quality) of the client: the setting, and a message to the server
ClientSetQuality(q) ==
    /\ configQuality' = q
    /\ wsSent' = sendMessage(ws, wsSent, qualityMessage(q))
    /\ stream' = [stream EXCEPT !.op = "setQuality", !.before = <<>>]
    /\ UNCHANGED <<ws, connected, others, timers, animating, manual, drops>>
    /\ UNCHANGED streamVars
    /\ UNCHANGED <<morphVars, producerVars, monitorVars, last>>

\* setInterpolationEnabled(enabled): the setting, nothing else
SetInterpolationEnabled(enabled) ==
    /\ enableInterpolation' = enabled
    /\ stream' = [stream EXCEPT !.op = "setInterpolation", !.before = <<>>]
    /\ UNCHANGED <<ws, connected, keyframeBlendshapes, targetBlendshapes,
                   currentBlendshapes, interpolationActive,
                   interpolationStartTime, interpolationStartValues,
                   messagesReceived, keyframesReceived, deltasApplied,
                   pending, now>>
    /\ UNCHANGED linkVars
    /\ UNCHANGED <<morphVars, producerVars, monitorVars, last>>

\* the messages of the stream: a blendshape update with a keyframe, a delta,
\* another compression type or none, a metrics update, and a message that
\* does not parse (text) or decompress (binary)
Update(kind, type, data) ==
    [kind |-> kind, ok |-> TRUE, type |-> "blendshape_update",
     compression |-> <<[type |-> type, data |-> data]>>]
Malformed(kind) ==
    [kind |-> kind, ok |-> FALSE, type |-> "", compression |-> <<>>]
Other(kind, type) ==
    [kind |-> kind, ok |-> TRUE, type |-> type, compression |-> <<>>]

\* {A: 0.5, B: 0.2}, {A: 0.6} and {B: 1.5}
StreamMaps ==
    {[c \in {"A", "B"} |-> IF c = "A" THEN 5000 ELSE 2000],
     [c \in {"A"} |-> 6000],
     [c \in {"B"} |-> 15000]}

StreamMessages ==
    {Update("text", t, d) : t \in {"keyframe", "delta"}, d \in StreamMaps}
    \cup {Update("binary", "keyframe", [c \in {"B"} |-> 15000]),
          Update("binary", "delta", [c \in {"A"} |-> 6000])}
    \cup {Update("text", "raw", EmptyMap)}
    \cup {Malformed(k) : k \in {"text", "binary"}}
    \cup {Other("text", "blendshape_update"), Other("binary", "metrics_update")}

----------------------------------------------------------------------------
(* The producer: DeltaCompressor.compress and the framing of its output    *)

\* compress testing the change with >= in place of >
compress_InclusiveEpsilon(cur, prev) ==
    LET changed == {k \in DOMAIN cur :
                      k \notin DOMAIN prev \/ Abs(cur[k] - prev[k]) >= 10}
        removed == {k \in DOMAIN prev : k \notin DOMAIN cur /\ prev[k] > 10}
    IN [k \in changed \cup removed |-> IF k \in changed THEN cur[k] ELSE 0]

\* compress without the "Remove zeros" loop
compress_NoRemoval(cur, prev) ==
    LET changed == {k \in DOMAIN cur :
                      k \notin DOMAIN prev \/ Abs(cur[k] - prev[k]) > 10}
    IN [k \in changed |-> cur[k]]

\* the delta dict of compress(current, previous), before it is packed
compress(cur, prev) ==
    LET changed == {k \in DOMAIN cur :
                      k \notin DOMAIN prev \/ Abs(cur[k] - prev[k]) > 10}
        removed == {k \in DOMAIN prev : k \notin DOMAIN cur /\ prev[k] > 10}
    IN [k \in changed \cup removed |-> IF k \in changed THEN cur[k] ELSE 0]

\* frames of the producer: every map from some of the channels to
\* 0, 0.001, 0.0011, 0.5 and 0.501
FrameValues == {0, 10, 11, 5000, 5010}
Frames == UNION {[D -> FrameValues] : D \in SUBSET Channels}

\* the reference frame goes out as a keyframe
SendKeyframe ==
    /\ ws = "open"
    /\ frameNo = 0
    /\ frameNo' = 1
    /\ sent' = Append(sent, Update("text", "keyframe", previous))
    /\ UNCHANGED <<current, previous, encoded>>
    /\ UNCHANGED <<morphVars, clientVars, monitorVars, last>>

\* the current frame goes out as a delta against the reference frame
SendDelta ==
    /\ ws = "open"
    /\ frameNo = 1
    /\ frameNo' = 2
    /\ encoded' = <<compress(current, previous)>>
    /\ sent' = Append(sent, Update("text", "delta", compress(current, previous)))
    /\ UNCHANGED <<current, previous>>
    /\ UNCHANGED <<morphVars, clientVars, monitorVars, last>>

\* the producer captures its next frame once the delta of the last one is out
ProduceFrame(frame) ==
    /\ frameNo = 2
    /\ Len(sent) < MaxWire
    /\ frameNo' = 1
    /\ current' = frame
    /\ UNCHANGED <<previous, encoded, sent>>
    /\ UNCHANGED <<morphVars, clientVars, monitorVars, last>>

\* the oldest message on the wire reaches ws.onmessage
Deliver ==
    /\ ws = "open"
    /\ sent # <<>>
    /\ sent' = Tail(sent)
    /\ \E c \in {handleMessage(ClientCore, Head(sent), now)} :
          /\ c.messagesReceived <= MaxMessages
          /\ setClientCore(c)
    /\ stream' = streamAfter(ClientCore, Head(sent))
    /\ UNCHANGED <<ws, connected, enableInterpolation, pending, now>>
    /\ UNCHANGED <<current, previous, frameNo, encoded>>
    /\ UNCHANGED <<morphVars, monitorVars, last>>
    /\ UNCHANGED linkVars

Entries(names, values) == names \X values
Batches(names, values) ==
    {b \in UNION {[1..n -> Entries(names, values)] : n \in 0..MaxBatch} :
        \A i, j \in DOMAIN b : i # j => b[i][1] # b[j][1]}

\* the names a caller passes: the registry, a priority name the mesh lacks
\* and a name nobody knows
InputNames == {"V_Open", "Brow_L", "V_AA", "Ghost"}
InputBatches == Batches(InputNames, MorphValues)

ProducerInit(frames) ==
    /\ current \in frames
    /\ previous \in frames
    /\ frameNo = 0
    /\ encoded = <<>>
    /\ sent = <<>>

\* ---------------------------------------------------------------------------
\* PerformanceMonitor
\* ---------------------------------------------------------------------------

\* frames counted between two statistics updates
MaxFrameCount == 2
\* queries gl.createQuery hands out
MaxQueries == 3
\* result callbacks that wait at one time
MaxCallbacks == 2
\* the last instant of the clock while the monitor is observed
MonitorEnd == 1

\* the frame times end() keeps
FrameWindow == 10

\* what JavaScript's numbers give outside the integers: now - undefined, and
\* the start of a running minimum
NaN == -1
Infinity == 1000000

NoQuery == 0
HistoryKeys == {"fps", "frameTime", "drawCalls", "morphUpdates"}

DefaultMonitor == [updateInterval |-> 1000, historySize |-> 60, trackHistory |-> TRUE]

NoMonitorDetail == [op |-> "none", stats |-> FALSE, shifted |-> FALSE,
                    trimmed |-> FALSE, read |-> "none"]

\* the monitor after its constructor; extension says whether the context has
\* EXT_disjoint_timer_query_webgl2
MonitorInit(configs, extension) ==
    /\ monitorConfig \in configs
    /\ frameStartTime = NaN
    /\ frameTimes = <<>>
    /\ frameCount = 0
    /\ lastUpdateTime = now
    /\ metrics = [fps |-> 0, frameTime |-> 0, frameTimeMin |-> Infinity,
                  frameTimeMax |-> 0, drawCalls |-> 0, morphUpdates |-> 0]
    /\ history = [k \in HistoryKeys |-> <<>>]
    /\ gpuTimer \in {IF x THEN <<[query |-> NoQuery, isRunning |-> FALSE]>> ELSE <<>> :
                        x \in extension}
    /\ queries = <<>>
    /\ callbacks = 0
    /\ disposed = FALSE
    /\ monitorLast = [NoMonitorDetail EXCEPT !.op = "init"]

minus(a, b) == IF a = NaN \/ b = NaN THEN NaN ELSE a - b
mathMin(a, b) == IF a = NaN \/ b = NaN THEN NaN ELSE IF a < b THEN a ELSE b
mathMax(a, b) == IF a = NaN \/ b = NaN THEN NaN ELSE IF a > b THEN a ELSE b

\* frameTimes.push(frameTime) and the shift that keeps the window
pushFrameTime_DropsNewest(times, frameTime) ==
    LET pushed == Append(times, frameTime)
    IN  IF Len(pushed) > FrameWindow THEN SubSeq(pushed, 1, FrameWindow) ELSE pushed

pushFrameTime(times, frameTime) ==
    LET pushed == Append(times, frameTime)
    IN  IF Len(pushed) > FrameWindow THEN Tail(pushed) ELSE pushed

\* the condition under which end() updates the statistics
intervalElapsed(t, lastUpdate, updateInterval) == t - lastUpdate >= updateInterval

\* Math.round((frameCount * 1000) / delta)
fpsOf(count, delta) ==
    IF delta = 0 THEN (IF count = 0 THEN NaN ELSE Infinity)
    ELSE RoundDiv(count * 1000, delta)

RECURSIVE sumOf(_)
sumOf(times) ==
    IF times = <<>> THEN 0
    ELSE IF Head(times) = NaN \/ sumOf(Tail(times)) = NaN THEN NaN
    ELSE Head(times) + sumOf(Tail(times))

\* the average frame time, to the nearest millisecond
averageOf(times) ==
    IF sumOf(times) = NaN THEN NaN ELSE RoundDiv(sumOf(times), Len(times))

\* updateHistory(): one value more in each series, the oldest dropped past
\* historySize
updateHistory(hist, m, historySize) ==
    [k \in HistoryKeys |->
        LET pushed == Append(hist[k], m[k])
        IN  IF Len(pushed) > historySize THEN Tail(pushed) ELSE pushed]

\* updateStats(now): the monitor's counters after it
updateStats(m, times, count, lastUpdate, hist, cfg, t) ==
    LET m1 == [m EXCEPT !.fps = fpsOf(count, t - lastUpdate)]
        m2 == IF Len(times) > 0 THEN [m1 EXCEPT !.frameTime = averageOf(times)] ELSE m1
    IN  [metrics |-> [m2 EXCEPT !.frameTimeMin = Infinity, !.frameTimeMax = 0],
         history |-> IF cfg.trackHistory THEN updateHistory(hist, m2, cfg.historySize)
                     ELSE hist,
         frameCount |-> 0,
         lastUpdateTime |-> t]

beginGPUTimer ==
    IF gpuTimer = <<>> \/ gpuTimer[1].isRunning
    THEN UNCHANGED <<gpuTimer, queries>>
    ELSE /\ Len(queries) < MaxQueries
         /\ queries' = Append(queries, "active")
         /\ gpuTimer' = <<[query |-> Len(queries) + 1, isRunning |-> TRUE]>>

endGPUTimer ==
    IF gpuTimer = <<>> \/ ~gpuTimer[1].isRunning
    THEN UNCHANGED <<gpuTimer, queries, callbacks>>
    ELSE /\ callbacks < MaxCallbacks
         /\ queries' = [queries EXCEPT ![gpuTimer[1].query] = "ended"]
         /\ gpuTimer' = <<[gpuTimer[1] EXCEPT !.isRunning = FALSE]>>
         /\ callbacks' = callbacks + 1

\* begin()
Begin ==
    /\ beginGPUTimer
    /\ frameStartTime' = now
    /\ monitorLast' = [NoMonitorDetail EXCEPT !.op = "begin"]
    /\ UNCHANGED <<monitorConfig, frameTimes, frameCount, lastUpdateTime,
                   metrics, history, callbacks, disposed>>
    /\ UNCHANGED <<morphVars, clientVars, producerVars, last>>

\* end(): a renderer without info and no morphStats
End ==
    /\ frameCount < MaxFrameCount
    /\ endGPUTimer
    /\ LET frameTime == minus(now, frameStartTime)
           times == pushFrameTime(frameTimes, frameTime)
           m == [metrics EXCEPT !.frameTimeMin = mathMin(@, frameTime),
                                !.frameTimeMax = mathMax(@, frameTime)]
           due == intervalElapsed(now, lastUpdateTime, monitorConfig.updateInterval)
           s == updateStats(m, times, frameCount + 1, lastUpdateTime, history,
                            monitorConfig, now)
       IN  /\ frameTimes' = times
           /\ metrics' = IF due THEN s.metrics ELSE m
           /\ history' = IF due THEN s.history ELSE history
           /\ frameCount' = IF due THEN s.frameCount ELSE frameCount + 1
           /\ lastUpdateTime' = IF due THEN s.lastUpdateTime ELSE lastUpdateTime
           /\ monitorLast' = [NoMonitorDetail EXCEPT
                                 !.op = "end",
                                 !.stats = due,
                                 !.shifted = (Len(frameTimes) = FrameWindow),
                                 !.trimmed = due /\ monitorConfig.trackHistory
                                     /\ Len(history["fps"]) = monitorConfig.historySize]
    /\ UNCHANGED <<monitorConfig, frameStartTime, disposed>>
    /\ UNCHANGED <<morphVars, clientVars, producerVars, last>>

\* updateStats(now) called by the page with the clock's reading
UpdateStats ==
    /\ LET s == updateStats(metrics, frameTimes, frameCount, lastUpdateTime,
                            history, monitorConfig, now)
       IN  /\ metrics' = s.metrics
           /\ history' = s.history
           /\ frameCount' = s.frameCount
           /\ lastUpdateTime' = s.lastUpdateTime
    /\ monitorLast' = [NoMonitorDetail EXCEPT
                          !.op = "updateStats",
                          !.stats = TRUE,
                          !.trimmed = monitorConfig.trackHistory
                              /\ Len(history["fps"]) = monitorConfig.historySize]
    /\ UNCHANGED <<monitorConfig, frameStartTime, frameTimes, gpuTimer, queries,
                   callbacks, disposed>>
    /\ UNCHANGED <<morphVars, clientVars, producerVars, last>>

\* reset()
Reset ==
    /\ frameCount' = 0
    /\ frameTimes' = <<>>
    /\ metrics' = [metrics EXCEPT !.frameTimeMin = Infinity, !.frameTimeMax = 0]
    /\ monitorLast' = [NoMonitorDetail EXCEPT !.op = "reset"]
    /\ UNCHANGED <<monitorConfig, frameStartTime, lastUpdateTime, history,
                   gpuTimer, queries, callbacks, disposed>>
    /\ UNCHANGED <<morphVars, clientVars, producerVars, last>>

\* the callback endGPUTimer hands to setTimeout; available is what
\* QUERY_RESULT_AVAILABLE answers for a query that has ended (for a query that
\* is still active or already deleted getQueryParameter answers null)
GpuCallback(available) ==
    /\ callbacks > 0
    /\ callbacks' = callbacks - 1
    /\ LET q == gpuTimer[1].query
           state == IF q = NoQuery THEN "none" ELSE queries[q]
       IN  /\ monitorLast' = [NoMonitorDetail EXCEPT !.op = "callback", !.read = state]
           /\ IF state = "ended" /\ available
              THEN /\ queries' = [queries EXCEPT ![q] = "deleted"]
                   /\ gpuTimer' = <<[gpuTimer[1] EXCEPT !.query = NoQuery]>>
              ELSE UNCHANGED <<gpuTimer, queries>>
    /\ UNCHANGED <<monitorConfig, frameStartTime, frameTimes, frameCount,
                   lastUpdateTime, metrics, history, disposed>>
    /\ UNCHANGED <<morphVars, clientVars, producerVars, last>>

\* dispose()
Dispose ==
    /\ ~disposed
    /\ disposed' = TRUE
    /\ IF gpuTimer # <<>> /\ gpuTimer[1].query # NoQuery
       THEN queries' = [queries EXCEPT ![gpuTimer[1].query] = "deleted"]
       ELSE UNCHANGED queries
    /\ monitorLast' = [NoMonitorDetail EXCEPT !.op = "dispose"]
    /\ UNCHANGED <<monitorConfig, frameStartTime, frameTimes, frameCount,
                   lastUpdateTime, metrics, history, gpuTimer, callbacks>>
    /\ UNCHANGED <<morphVars, clientVars, producerVars, last>>

\* Admission: the operations that write morphStates and the active set
MorphNext ==
    \/ \E n \in InputNames, v \in MorphValues, f \in BOOLEAN : SetMorph(n, v, f)
    \/ \E b \in InputBatches : UpdateMorphs(b)
    \/ ResetAll
    \/ \E q \in Qualities : SetQuality(q)

InitMorph ==
    /\ MorphInit({"V_Open", "Brow_L"}, Qualities, BOOLEAN, {TRUE})
    /\ last = [NoDetail EXCEPT !.op = "init"]
    /\ ClientInit({TRUE})
    /\ ProducerInit({EmptyMap})
    /\ MonitorInit({DefaultMonitor}, {FALSE})

SpecMorph == InitMorph /\ [][MorphNext]_vars

\* The frame loop: single sets, the tick and the LOD level
TickNext ==
    \/ \E n \in {"V_Open", "Brow_L"}, v \in {0, 600} : SetMorph(n, v, FALSE)
    \/ Tick
    \/ \E d \in Distances : UpdateLOD(d)
    \/ \E q \in Qualities : SetQuality(q)
    \/ \E f \in FpsReports : AdjustQuality(f)

InitTick ==
    /\ MorphInit({"V_Open", "Brow_L"}, Qualities, {TRUE}, BOOLEAN)
    /\ last = [NoDetail EXCEPT !.op = "init"]
    /\ ClientInit({TRUE})
    /\ ProducerInit({EmptyMap})
    /\ MonitorInit({DefaultMonitor}, {FALSE})

SpecTick == InitTick /\ [][TickNext]_vars

\* A stream: one keyframe, then a delta per frame against that keyframe
StreamFrames == UNION {[D -> {0, 10, 11, 5000}] : D \in SUBSET Channels}

StreamNext ==
    \/ Connect
    \/ OnOpen
    \/ SendKeyframe
    \/ SendDelta
    \/ \E f \in StreamFrames : ProduceFrame(f)
    \/ Deliver

InitStream ==
    /\ ClientInit({TRUE})
    /\ MorphInit({}, {"medium"}, {TRUE}, {TRUE})
    /\ last = [NoDetail EXCEPT !.op = "init"]
    /\ ProducerInit(StreamFrames)
    /\ MonitorInit({DefaultMonitor}, {FALSE})

SpecStream == InitStream /\ [][StreamNext]_vars

\* The frame loop running on while values are set: every tick that can
\* run does run
DeferNext ==
    \/ \E n \in {"V_Open", "Brow_L"}, v \in {0, 600} : SetMorph(n, v, FALSE)
    \/ Tick

InitDefer ==
    /\ MorphInit({"V_Open", "Brow_L"}, Qualities, {TRUE}, BOOLEAN)
    /\ last = [NoDetail EXCEPT !.op = "init"]
    /\ ClientInit({TRUE})
    /\ ProducerInit({EmptyMap})
    /\ MonitorInit({DefaultMonitor}, {FALSE})

SpecDefer == InitDefer /\ [][DeferNext]_vars /\ WF_vars(Tick)

\* The camera moving through every threshold of every preset
LodDistances == {0, 1, 2, 3, 5, 8, 10, 12, 15, 20, 29, 30, 31}

LodNext ==
    \/ \E d \in LodDistances : UpdateLOD(d)
    \/ \E q \in Qualities : SetQuality(q)
    \/ Tick

InitLod ==
    /\ MorphInit({"V_Open", "Brow_L"}, Qualities, {TRUE}, BOOLEAN)
    /\ last = [NoDetail EXCEPT !.op = "init"]
    /\ ClientInit({TRUE})
    /\ ProducerInit({EmptyMap})
    /\ MonitorInit({DefaultMonitor}, {FALSE})

SpecLod == InitLod /\ [][LodNext]_vars

\* The client on a stream of messages
ClientNext ==
    \/ Connect
    \/ OnOpen
    \/ \E m \in StreamMessages : OnTextMessage(m)
    \/ \E m \in StreamMessages : OnBinaryMessage(m)
    \/ \E m \in pending : OnDecompressed(m)
    \/ AnimationFrame
    \/ \E ms \in {interpolationDuration} : AdvanceTime(ms)

InitClient ==
    /\ ClientInit(BOOLEAN)
    /\ MorphInit({}, {"medium"}, {TRUE}, {TRUE})
    /\ last = [NoDetail EXCEPT !.op = "init"]
    /\ ProducerInit({EmptyMap})
    /\ MonitorInit({DefaultMonitor}, {FALSE})

SpecClient == InitClient /\ [][ClientNext]_vars

\* One frame encoded against a reference frame and decoded by the client
CodecNext ==
    \/ Connect
    \/ OnOpen
    \/ SendKeyframe
    \/ SendDelta
    \/ Deliver
    \/ AnimationFrame

InitCodec ==
    /\ ClientInit(BOOLEAN)
    /\ MorphInit({}, {"medium"}, {TRUE}, {TRUE})
    /\ last = [NoDetail EXCEPT !.op = "init"]
    /\ ProducerInit(Frames)
    /\ MonitorInit({DefaultMonitor}, {FALSE})

SpecCodec == InitCodec /\ [][CodecNext]_vars

\* Transitions of the client sampled by the animation loop every few ms
TimeSteps == {3, 15}

\* keyframes {A: 0.5, B: 0.2} and {B: 1.5}, and the delta {A: 0.6}
InterpMessages ==
    {Update("text", "keyframe", [c \in {"A", "B"} |-> IF c = "A" THEN 5000 ELSE 2000]),
     Update("text", "keyframe", [c \in {"B"} |-> 15000]),
     Update("text", "delta", [c \in {"A"} |-> 6000])}

InterpNext ==
    \/ Connect
    \/ OnOpen
    \/ \E m \in InterpMessages : OnTextMessage(m)
    \/ AnimationFrame
    \/ \E ms \in TimeSteps : AdvanceTime(ms)

InitInterp ==
    /\ ClientInit(BOOLEAN)
    /\ MorphInit({}, {"medium"}, {TRUE}, {TRUE})
    /\ last = [NoDetail EXCEPT !.op = "init"]
    /\ ProducerInit({EmptyMap})
    /\ MonitorInit({DefaultMonitor}, {FALSE})

SpecInterp == InitInterp /\ [][InterpNext]_vars

\* The connection of the client: the user, the sockets and the timers
LinkNext ==
    \/ Connect
    \/ TimerConnect
    \/ OnOpen
    \/ OtherOpen
    \/ OnClose
    \/ \E st \in {"connecting", "open", "closing"} : OtherClose(st)
    \/ Disconnect
    \/ \E q \in {"low", "medium", "high"} : ClientSetQuality(q)

InitLink ==
    /\ ClientInit({TRUE})
    /\ MorphInit({}, {"medium"}, {TRUE}, {TRUE})
    /\ last = [NoDetail EXCEPT !.op = "init"]
    /\ ProducerInit({EmptyMap})
    /\ MonitorInit({DefaultMonitor}, {FALSE})

SpecLink == InitLink /\ [][LinkNext]_vars

\* The link left to itself after connect(): the server refuses or drops the
\* client a bounded number of times, every timer set fires and a socket the
\* server accepts opens
ReconnectNext ==
    \/ Connect
    \/ TimerConnect
    \/ OnOpen
    \/ OtherOpen
    \/ OnClose
    \/ \E st \in {"connecting", "open"} : OtherClose(st)

SpecReconnect ==
    InitLink /\ [][ReconnectNext]_vars /\ WF_vars(TimerConnect) /\ WF_vars(OnOpen)

\* The animation loop across disconnect() and connect(): one keyframe
\* arriving while the clock runs, every frame that is requested running
LoopMessages ==
    {Update("text", "keyframe", [c \in {"A", "B"} |-> IF c = "A" THEN 5000 ELSE 2000])}

\* a third of the transition, and all of it
LoopSteps == {11, 33}

LoopNext ==
    \/ Connect
    \/ OnOpen
    \/ Disconnect
    \/ \E m \in LoopMessages : OnTextMessage(m)
    \/ AnimationFrame
    \/ \E ms \in LoopSteps : AdvanceTime(ms)

SpecLoop ==
    /\ InitLink
    /\ [][LoopNext]_vars
    /\ WF_vars(AnimationFrame)
    /\ WF_vars(AdvanceTime(11))

\* Interpolation switched on and off while updates arrive and frames run
ToggleMessages ==
    {Update("text", "keyframe", [c \in {"A", "B"} |-> IF c = "A" THEN 5000 ELSE 2000]),
     Update("text", "delta", [c \in {"A"} |-> 6000])}

ToggleNext ==
    \/ Connect
    \/ OnOpen
    \/ \E m \in ToggleMessages : OnTextMessage(m)
    \/ AnimationFrame
    \/ \E ms \in LoopSteps : AdvanceTime(ms)
    \/ \E b \in BOOLEAN : SetInterpolationEnabled(b)

SpecToggle == InitInterp /\ [][ToggleNext]_vars

\* The render loop blending between ticks: updates, tick, interpolateMorphs
\* with alpha 0, 0.5 and 1, and resetAll
Alphas == {0, 5000, 10000}
BlendBatches == Batches({"V_Open", "Brow_L"}, {600})

BlendNext ==
    \/ \E n \in {"V_Open", "Brow_L"}, v \in {0, 600} : SetMorph(n, v, FALSE)
    \/ \E b \in BlendBatches : UpdateMorphs(b)
    \/ Tick
    \/ \E a \in Alphas : InterpolateMorphs(a)
    \/ ResetAll

InitBlend ==
    /\ MorphInit({"V_Open", "Brow_L"}, Qualities, {TRUE}, {TRUE})
    /\ last = [NoDetail EXCEPT !.op = "init"]
    /\ ClientInit({TRUE})
    /\ ProducerInit({EmptyMap})
    /\ MonitorInit({DefaultMonitor}, {FALSE})

SpecBlend == InitBlend /\ [][BlendNext]_vars

\* The settings and the link: the user changes quality and interpolation
\* while sockets open, close and are replaced
ConfigNext ==
    \/ Connect
    \/ TimerConnect
    \/ OnOpen
    \/ OtherOpen
    \/ OnClose
    \/ \E st \in {"connecting", "open", "closing"} : OtherClose(st)
    \/ Disconnect
    \/ \E q \in {"low", "high"} : ClientSetQuality(q)
    \/ \E b \in BOOLEAN : SetInterpolationEnabled(b)

SpecConfig == InitLink /\ [][ConfigNext]_vars

\* Changes of the preset: a page that drives the morph system, or one that
\* runs the client on a mesh without morph targets
QualityNext ==
    \/ morphMap # {} /\ TickNext
    \/ /\ morphMap = {}
       /\ \/ Connect
          \/ OnOpen
          \/ \E m \in InterpMessages : OnTextMessage(m)
          \/ AnimationFrame
          \/ \E ms \in {15} : AdvanceTime(ms)
          \/ \E q \in {"low", "medium"} : ClientSetQuality(q)

InitQuality ==
    /\ \/ MorphInit({"V_Open", "Brow_L"}, Qualities, {TRUE}, BOOLEAN)
       \/ MorphInit({}, {"medium"}, {TRUE}, {TRUE})
    /\ last = [NoDetail EXCEPT !.op = "init"]
    /\ ClientInit({TRUE})
    /\ ProducerInit({EmptyMap})
    /\ MonitorInit({DefaultMonitor}, {FALSE})

SpecQuality == InitQuality /\ [][QualityNext]_vars

\* Admission of single morphs on a mesh with three morphs
AdmitValues == {0, 8, 10, 600}

AdmitNext ==
    \/ \E n \in MorphNames \cup {"Ghost"}, v \in AdmitValues, f \in BOOLEAN :
          SetMorph(n, v, f)
    \/ ResetAll
    \/ \E q \in Qualities : SetQuality(q)

InitAdmit ==
    /\ MorphInit(MorphNames, Qualities, BOOLEAN, {TRUE})
    /\ last = [NoDetail EXCEPT !.op = "init"]
    /\ ClientInit({TRUE})
    /\ ProducerInit({EmptyMap})
    /\ MonitorInit({DefaultMonitor}, {FALSE})

SpecAdmit == InitAdmit /\ [][AdmitNext]_vars

\* The active set under every operation that writes a morph: values at
\* 0, 0.001 and 0.0011
ActiveValues == {0, 10, 11}
ActiveBatches == Batches({"V_Open", "Brow_L"}, {11})

ActiveNext ==
    \/ \E n \in {"V_Open", "Brow_L"}, v \in ActiveValues, f \in BOOLEAN :
          SetMorph(n, v, f)
    \/ \E b \in ActiveBatches : UpdateMorphs(b)
    \/ frameCounter < FewFrames /\ Tick
    \/ ResetAll
    \/ \E q \in Qualities : SetQuality(q)

InitActive ==
    /\ MorphInit({"V_Open", "Brow_L"}, Qualities, BOOLEAN, {TRUE})
    /\ last = [NoDetail EXCEPT !.op = "init"]
    /\ ClientInit({TRUE})
    /\ ProducerInit({EmptyMap})
    /\ MonitorInit({DefaultMonitor}, {FALSE})

SpecActive == InitActive /\ [][ActiveNext]_vars

\* The limit under a preset that stays: non-forced sets, batches, ticks and
\* resets on a mesh with one priority morph and two others
CapBatches == Batches(MorphNames, {600})

CapNext ==
    \/ \E n \in MorphNames, v \in {0, 600} : SetMorph(n, v, FALSE)
    \/ \E b \in CapBatches : UpdateMorphs(b)
    \/ frameCounter < FewFrames /\ Tick
    \/ ResetAll

InitCap ==
    /\ MorphInit(MorphNames, Qualities, BOOLEAN, {TRUE})
    /\ last = [NoDetail EXCEPT !.op = "init"]
    /\ ClientInit({TRUE})
    /\ ProducerInit({EmptyMap})
    /\ MonitorInit({DefaultMonitor}, {FALSE})

SpecCap == InitCap /\ [][CapNext]_vars

----------------------------------------------------------------------------
(* Properties of the morph system                                          *)

\* C1 (as stated): after every updateMorphs call, each priority morph of the
\* incoming map that the registry knows has been admitted, so that its
\* incoming value is the stored one (the half of the claim that does not
\* depend on what setMorph returns for a value equal to the stored one).
C1_PriorityAlwaysAdmitted ==
    last.op = "updateMorphs" =>
        \A e \in last.prio : morphStates[e[1]] = e[2]

\* C1 (amended): after every updateMorphs call, each registered priority
\* morph of the incoming map whose value differs from the stored one by at
\* least the preset's morphUpdateThreshold (or any value, with
\* selectiveUpdates off) has been admitted, however many morphs are active.
C1_PriorityAdmittedWhenChanged ==
    last.op = "updateMorphs" =>
        \A e \in last.prio :
            (~selectiveUpdates \/
             Abs(e[2] - e[3]) >= qualityPresets(quality).morphUpdateThreshold)
            => e[1] \in last.updates /\ morphStates[e[1]] = e[2]

\* a priority morph that was at 0 is admitted by an updateMorphs call that
\* started with the active set at the preset's limit, and the active set
\* ends above the limit
C1_Witness ==
    /\ last.op = "updateMorphs"
    /\ last.full
    /\ \E e \in last.prio : e[3] = 0 /\ e[2] > 10 /\ e[1] \in last.updates
    /\ Cardinality(activeMorphs) > qualityPresets(quality).maxActiveMorphs

\* C2: a priority morph that is dirty when tick() runs has its stored value
\* on the mesh when the tick returns, whatever the frame counter, the
\* preset's updateFrequency and the LOD level.
C2_PriorityWrittenEveryTick ==
    last.op = "tick" => \A m \in last.dirty : influences[m] = morphStates[m]

\* a tick at LOD level 3 on a frame that is no multiple of updateFrequency
\* wrote the dirty priority morph and left the other morph's influence stale
C2_Witness ==
    /\ last.op = "tick"
    /\ "V_Open" \in last.dirty
    /\ lodLevel = 3
    /\ frameCounter % qualityPresets(quality).updateFrequency # 0
    /\ influences["V_Open"] = 600
    /\ influences["Brow_L"] # morphStates["Brow_L"]

\* C9: setMorph with a name the registry lacks returns false and changes
\* nothing; updateMorphs leaves the state, and returns the updates, that the
\* same map without its unknown entries would.
C9_UnknownDropped ==
    /\ (last.op = "setMorph" /\ last.unknown # {}
            => ~last.ret /\ MorphCore = last.expect[1])
    /\ (last.op = "updateMorphs"
            => /\ MorphCore = last.expect[1]
               /\ last.same
               /\ last.unknown \cap last.updates = {})

\* an updateMorphs call whose map held an unknown name admitted a known one
C9_Witness ==
    /\ last.op = "updateMorphs"
    /\ last.unknown # {}
    /\ last.updates # {}
    /\ skippedUpdates > 0

----------------------------------------------------------------------------
(* Properties of the client and of the codec                               *)

\* a keyframe overlaid with the entries of a delta
Overlay(keyframe, delta) ==
    [m \in DOMAIN keyframe \cup DOMAIN delta |->
        IF m \in DOMAIN delta THEN delta[m] ELSE keyframe[m]]

C4_DeltaBeforeKeyframeRejected ==
    stream.op = "delta" /\ stream.before # <<>> =>
        /\ targetBlendshapes = stream.before[1].targetBlendshapes
        /\ keyframeBlendshapes = stream.before[1].keyframeBlendshapes
        /\ currentBlendshapes = stream.before[1].currentBlendshapes
        /\ interpolationActive = stream.before[1].interpolationActive
        /\ interpolationStartTime = stream.before[1].interpolationStartTime
        /\ interpolationStartValues = stream.before[1].interpolationStartValues

inUnitRange(map) == \A c \in DOMAIN map : 0 <= map[c] /\ map[c] <= 10000

\* C8: every channel value the receiver holds lies in [0, 1].
C8_ValuesInUnitRange ==
    /\ inUnitRange(keyframeBlendshapes)
    /\ inUnitRange(targetBlendshapes)
    /\ inUnitRange(currentBlendshapes)
    /\ inUnitRange(morphStates)
    /\ inUnitRange(influences)

\* C10: a message that does not decompress or parse leaves the keyframe,
\* the target, the current blendshapes and the rest of what the handlers
\* read and write as they were, with the socket open, so that the messages
\* after it are handled from the state they would have found without it.
C10_MalformedDropped ==
    stream.op = "dropped" =>
        /\ ClientCore = stream.before[1]
        /\ ws = "open"
        /\ connected

\* a malformed message was dropped in the middle of a transition towards a
\* target built from a keyframe and a delta
C10_Witness ==
    /\ stream.op = "dropped"
    /\ interpolationActive
    /\ keyframesReceived > 0
    /\ deltasApplied > 0
    /\ targetBlendshapes # EmptyMap

\* the codec's round: the keyframe and the delta have both been handled
roundDone == frameNo = 2 /\ sent = <<>> /\ stream.delta # <<>>

changedChannels ==
    {c \in Channels : Abs(valueOr0(current, c) - valueOr0(previous, c)) > 10}

C7_RemovedChannelZeroed ==
    \A c \in DOMAIN previous \ DOMAIN current :
        previous[c] > 10 =>
            /\ encoded # <<>> => c \in DOMAIN encoded[1] /\ encoded[1][c] = 0
            /\ roundDone => c \in DOMAIN targetBlendshapes
                            /\ targetBlendshapes[c] = 0

\* the receiver held 0.5 for a channel after the keyframe and holds 0 for it
\* after the delta, the current frame lacking the channel
C7_Witness ==
    /\ roundDone
    /\ \E c \in DOMAIN previous \ DOMAIN current :
          /\ previous[c] = 5000
          /\ keyframeBlendshapes[c] = 5000
          /\ targetBlendshapes[c] = 0

----------------------------------------------------------------------------
(* Properties of the admission of single morphs                            *)

\* the step is a non-forced setMorph call on a registered morph
nonForcedSet ==
    last'.op = "setMorph" /\ ~last'.force /\ last'.name \in morphMap

\* the change the call asks for, measured against the stored value
changeAsked == Abs(last'.value - morphStates[last'.name])

\* the call asks for a morph the limit holds back
heldBack ==
    /\ last'.value > 0
    /\ last'.name \notin activeMorphs
    /\ capReached
    /\ last'.name \notin PriorityMorphs

\* C11: a non-forced setMorph never admits a non-priority morph that is not
\* in the active set and whose new value is above 0 while the active set
\* holds maxActiveMorphs entries or more (nothing is stored, the active set
\* stays as it is); a non-priority morph that is already active is admitted
\* at the limit when its change passes the threshold.
C11_CapHoldsBackNewMorphs ==
    [][(nonForcedSet /\ last'.name \notin PriorityMorphs)
       => /\ (last'.value > 0 /\ last'.name \notin activeMorphs /\ capReached)
               => /\ ~last'.ret
                  /\ morphStates' = morphStates
                  /\ activeMorphs' = activeMorphs
          /\ (/\ last'.name \in activeMorphs
              /\ capReached
              /\ (~selectiveUpdates
                  \/ changeAsked >= qualityPresets(quality).morphUpdateThreshold))
               => /\ last'.ret
                  /\ morphStates'[last'.name] = last'.value]_vars

\* setMorph("Cheek_R", 0.06) was refused with the active set at the limit:
\* the change passes every threshold, the morph stays at 0 and inactive
C11_Witness ==
    /\ last.op = "setMorph"
    /\ last.name = "Cheek_R" /\ last.value = 600 /\ ~last.force
    /\ ~last.ret
    /\ morphStates["Cheek_R"] = 0
    /\ "Cheek_R" \notin activeMorphs
    /\ "Brow_L" \in activeMorphs
    /\ Cardinality(activeMorphs) >= qualityPresets(quality).maxActiveMorphs

\* C12 (as stated): active priority morphs take no room under the limit, so
\* a non-forced setMorph admits a non-priority morph whose change passes the
\* threshold whenever fewer than maxActiveMorphs non-priority morphs are
\* active, however many priority morphs are.
C12_PriorityOccupantsExempt ==
    [][(/\ nonForcedSet
        /\ last'.name \notin PriorityMorphs
        /\ (~selectiveUpdates
            \/ changeAsked >= qualityPresets(quality).morphUpdateThreshold)
        /\ Cardinality(activeMorphs \ PriorityMorphs)
              < qualityPresets(quality).maxActiveMorphs)
       => /\ last'.ret
          /\ morphStates'[last'.name] = last'.value]_vars

\* C13 (as stated): a non-forced setMorph on a registered morph whose new
\* value is within the preset's morphUpdateThreshold of the stored one
\* returns false, counts one skipped update and leaves morphStates,
\* dirtyMorphs and activeMorphs alone; a change of at least the threshold
\* that the limit does not hold back is stored and marked dirty.
C13_SelectiveUpdateAlways ==
    [][nonForcedSet
       => /\ changeAsked < qualityPresets(quality).morphUpdateThreshold
               => /\ ~last'.ret
                  /\ skippedUpdates' = skippedUpdates + 1
                  /\ morphStates' = morphStates
                  /\ dirtyMorphs' = dirtyMorphs
                  /\ activeMorphs' = activeMorphs
          /\ (changeAsked >= qualityPresets(quality).morphUpdateThreshold
              /\ ~heldBack)
               => /\ last'.ret
                  /\ morphStates'[last'.name] = last'.value
                  /\ last'.name \in dirtyMorphs']_vars

\* C13 (amended): the same with config.selectiveUpdates on; with it off no
\* change is too small, and every call the limit does not hold back is
\* stored and marked dirty.
C13_SelectiveUpdate ==
    [][nonForcedSet
       => /\ (selectiveUpdates
              /\ changeAsked < qualityPresets(quality).morphUpdateThreshold)
               => /\ ~last'.ret
                  /\ skippedUpdates' = skippedUpdates + 1
                  /\ morphStates' = morphStates
                  /\ dirtyMorphs' = dirtyMorphs
                  /\ activeMorphs' = activeMorphs
          /\ ((~selectiveUpdates
               \/ changeAsked >= qualityPresets(quality).morphUpdateThreshold)
              /\ ~heldBack)
               => /\ last'.ret
                  /\ morphStates'[last'.name] = last'.value
                  /\ last'.name \in dirtyMorphs']_vars

\* with selective updates on, setMorph("Brow_L", 0.0008) on a morph stored
\* at 0.001 was skipped below the limit: one skipped update, the value kept
C13_Witness ==
    /\ last.op = "setMorph"
    /\ last.name = "Brow_L" /\ last.value = 8 /\ ~last.force
    /\ ~last.ret
    /\ selectiveUpdates
    /\ morphStates["Brow_L"] = 10
    /\ skippedUpdates = 1
    /\ Cardinality(activeMorphs) < qualityPresets(quality).maxActiveMorphs

----------------------------------------------------------------------------
(* Properties of the frame loop                                            *)

\* C14: tick() writes the value of a non-priority morph to the mesh only on
\* frames whose frame counter, as incremented by that tick, is a multiple of
\* the preset's updateFrequency; on every other frame the influences of the
\* non-priority morphs are what they were before the tick.
C14_OthersOnlyOnFrequency ==
    [][(/\ last'.op = "tick"
        /\ frameCounter' % qualityPresets(quality).updateFrequency # 0)
       => \A m \in morphMap \ PriorityMorphs : influences'[m] = influences[m]]_vars

\* the first tick of a system on preset medium at LOD level 0: Brow_L, set
\* to 0.06 before it, is not on the mesh after it
C14_Witness ==
    /\ last.op = "tick"
    /\ frameCounter = 1
    /\ quality = "medium"
    /\ lodLevel = 0
    /\ morphStates["Brow_L"] = 600
    /\ influences["Brow_L"] = 0

\* stride multipliers a distance band may stand for
LodMultipliers == {1, 2, 3}

\* the frame is one on which every stride made of the preset's
\* updateFrequency and a multiplier lets the non-priority morphs through
onEveryStride(counter) ==
    \A k \in LodMultipliers :
        counter % (qualityPresets(quality).updateFrequency * k) = 0

\* C15 (as stated): distance never stops the non-priority morphs. Whatever
\* finite stride the distance stands for, a tick whose frame counter is a
\* multiple of the stride writes the non-priority morphs that are dirty.
C15_DistanceNeverStops ==
    [][(last'.op = "tick" /\ onEveryStride(frameCounter'))
       => \A m \in dirtyMorphs \ PriorityMorphs :
             influences'[m] = morphStates[m]]_vars

\* ticks after which a morph nobody sets is to have decayed
DecayTimeout == 4

\* C19 (as stated): a morph that has had no update for longer than the decay
\* timeout is at 0.01 or below on the mesh, with no further call.
C19_DecaysAfterTimeout ==
    last.idle > DecayTimeout => \A m \in morphMap : influences[m] <= 100

\* the presets in the order low < medium < high < ultra
tierOf(q) ==
    CASE q = "low" -> 1 [] q = "medium" -> 2 [] q = "high" -> 3 [] q = "ultra" -> 4

\* C20 (as stated): the preset in force never moves by more than one step
\* of low < medium < high < ultra in one change.
C20_OneTierPerChange ==
    [][Abs(tierOf(quality') - tierOf(quality)) <= 1]_vars

----------------------------------------------------------------------------
(* Properties of the client's transitions                                  *)

\* the step handled a blendshape update that set a target
targetSet == stream'.op \in {"keyframe", "delta"}

\* the step is a turn of the animation loop
frameStep == stream'.op = "frame"

\* the distance of a channel of `map` from its target
toTarget(map, ch) == Abs(valueOr0(map, ch) - valueOr0(targetBlendshapes, ch))

\* C16: when an update sets a new target while a transition is in flight,
\* the new transition starts, for every channel, from the value the
\* animation loop sampled last (not from the old target) with the start time
\* set to now, and a sample taken right after the update is the value
\* sampled right before it.
C16_RetargetStartsFromCurrent ==
    [][(targetSet /\ enableInterpolation /\ interpolationActive)
       => /\ interpolationActive'
          /\ interpolationStartTime' = now
          /\ interpolationStartValues' = currentBlendshapes
          /\ currentBlendshapes' = currentBlendshapes
          /\ \A ch \in Channels :
               valueOr0(updateInterpolation(ClientCore', now').currentBlendshapes, ch)
                   = valueOr0(currentBlendshapes, ch)]_vars

\* an update arrived in the middle of a transition: the new transition
\* starts now, after time 0, from a value that is on the way between two
\* targets, with another target ahead
C16_Witness ==
    /\ stream.op \in {"keyframe", "delta"}
    /\ interpolationActive
    /\ now > 0
    /\ interpolationStartTime = now
    /\ interpolationStartValues = currentBlendshapes
    /\ currentBlendshapes # targetBlendshapes
    /\ \E ch \in DOMAIN currentBlendshapes :
          currentBlendshapes[ch] \notin {0, 2000, 5000, 6000, 15000}

\* C17: within one transition every sample is at least as close to the
\* target as the sample before it, on every channel, and a sample taken at
\* the start of the transition is the start value.
C17_ApproachesTarget ==
    [][(frameStep /\ interpolationActive)
       => /\ \A ch \in Channels :
                toTarget(currentBlendshapes', ch) <= toTarget(currentBlendshapes, ch)
          /\ now = interpolationStartTime
               => \A ch \in Channels :
                     valueOr0(currentBlendshapes', ch)
                         = valueOr0(interpolationStartValues, ch)]_vars

\* a sample in the second half of a transition, strictly between the start
\* value and the target
C17_Witness ==
    /\ stream.op = "frame"
    /\ interpolationActive
    /\ 2 * (now - interpolationStartTime) > interpolationDuration
    /\ \E ch \in Channels :
          /\ toTarget(currentBlendshapes, ch) > 0
          /\ toTarget(currentBlendshapes, ch) < toTarget(interpolationStartValues, ch)

\* C18: a sample taken once the duration has elapsed is the target on every
\* channel and marks the transition settled; while no transition is active
\* the value is the target, and the animation loop leaves it alone.
C18_SettlesOnTarget ==
    /\ [](~interpolationActive => currentBlendshapes = targetBlendshapes)
    /\ [][(/\ frameStep
           /\ interpolationActive
           /\ now - interpolationStartTime >= interpolationDuration)
          => /\ ~interpolationActive'
             /\ currentBlendshapes' = targetBlendshapes]_vars
    /\ [][(frameStep /\ ~interpolationActive)
          => /\ ~interpolationActive'
             /\ currentBlendshapes' = currentBlendshapes]_vars

\* a frame exactly one duration after the start of a transition settled it
\* on a target that is not empty
C18_Witness ==
    /\ stream.op = "frame"
    /\ enableInterpolation
    /\ keyframesReceived > 0
    /\ ~interpolationActive
    /\ now - interpolationStartTime = interpolationDuration
    /\ targetBlendshapes # EmptyMap
    /\ currentBlendshapes = targetBlendshapes

----------------------------------------------------------------------------
(* Properties of the changes of the preset                                 *)

\* C21: setQuality of the morph system with a defined preset leaves
\* morphStates, previousStates, activeMorphs, dirtyMorphs, frameCounter and
\* lodLevel (and the mesh) as they were, and setQuality of the client leaves
\* the transition in flight (start values, start time, target, the value
\* sampled last) as it was.
C21_TierChangeOnlySwapsPreset ==
    /\ [][last'.op = "setQuality"
          => UNCHANGED <<morphStates, previousStates, activeMorphs,
                         dirtyMorphs, frameCounter, lodLevel, influences>>]_vars
    /\ [][stream'.op = "setQuality"
          => UNCHANGED <<interpolationActive, interpolationStartValues,
                         interpolationStartTime, targetBlendshapes,
                         currentBlendshapes, keyframeBlendshapes>>]_vars

\* the client turned to low in the middle of a transition, which goes on
C21_Witness ==
    /\ stream.op = "setQuality"
    /\ configQuality = "low"
    /\ interpolationActive
    /\ now > interpolationStartTime
    /\ now < interpolationStartTime + interpolationDuration
    /\ targetBlendshapes # EmptyMap
    /\ currentBlendshapes # targetBlendshapes

----------------------------------------------------------------------------
(* Properties of the active set                                            *)

\* C22: in every state reached by setMorph (forced or not), updateMorphs,
\* tick, resetAll and setQuality after one initialize, the active set is
\* exactly the set of registered morphs stored above the activation epsilon
\* 0.001.
C22_ActiveIffAboveEpsilon ==
    activeMorphs = {m \in morphMap : morphStates[m] > 10}

\* after a forced set and a tick, Brow_L stored at 0.001 is not active and
\* V_Open stored at 0.0011 is
C22_Witness ==
    /\ last.op = "setMorph" /\ last.force
    /\ frameCounter > 0
    /\ morphStates["Brow_L"] = 10 /\ "Brow_L" \notin activeMorphs
    /\ morphStates["V_Open"] = 11 /\ "V_Open" \in activeMorphs

\* C26: under a preset that stays and without forced sets, in every state
\* reached by updateMorphs, setMorph, tick and resetAll the number of active
\* non-priority morphs is at most the preset's maxActiveMorphs.
C26_OthersWithinLimit ==
    Cardinality(activeMorphs \ PriorityMorphs)
        <= qualityPresets(quality).maxActiveMorphs

\* with the non-priority morphs at the limit, setMorph("Cheek_R", 0.06) was
\* refused after a tick
C26_Witness ==
    /\ last.op = "setMorph"
    /\ last.name = "Cheek_R" /\ last.value = 600 /\ ~last.ret
    /\ frameCounter > 0
    /\ morphStates["Cheek_R"] = 0
    /\ "Brow_L" \in activeMorphs
    /\ Cardinality(activeMorphs \ PriorityMorphs)
          = qualityPresets(quality).maxActiveMorphs

----------------------------------------------------------------------------
(* Properties of the level of detail                                       *)

\* the number of the preset's three thresholds at or below `distance`
thresholdsReached(distance) ==
    Cardinality({i \in 1..3 : qualityPresets(quality).lodDistances[i] <= distance})

\* C27: updateLOD(distance) selects one of 4 levels: the level is the number
\* of the preset's three lodDistances that are <= distance (0 below the
\* first, 3 at or beyond the last), it does not decrease when the distance
\* grows, and it is 0 whenever lodEnabled is false.
C27_LevelCountsThresholds ==
    /\ [](lodLevel \in 0..3)
    /\ [](\A d1, d2 \in LodDistances :
             d1 <= d2 => lodLevelFor(d1) <= lodLevelFor(d2))
    /\ [][last'.op = "updateLOD"
          => lodLevel' = IF lodEnabled THEN thresholdsReached(last'.value)
                         ELSE 0]_vars

\* updateLOD at exactly the second threshold of the low preset gave level 2
C27_Witness ==
    /\ last.op = "updateLOD" /\ last.value = 5
    /\ quality = "low" /\ lodEnabled
    /\ lodLevel = 2

----------------------------------------------------------------------------
(* Properties of a channel's transition                                    *)

\* the update in this step gives channel `ch` a new target
newTargetFor(ch) ==
    valueOr0(targetBlendshapes', ch) # valueOr0(targetBlendshapes, ch)

\* C23 (as stated): a channel's start value and transition start time change
\* only when a new target for that channel is admitted: an update that
\* changes the target of another channel only leaves them as they were.
C23_OnlyOnOwnNewTarget ==
    [][targetSet
       => \A ch \in Channels :
             ((\E a \in Channels : newTargetFor(a)) /\ ~newTargetFor(ch))
             => /\ valueOr0(interpolationStartValues', ch)
                     = valueOr0(interpolationStartValues, ch)
                /\ interpolationStartTime' = interpolationStartTime]_vars

----------------------------------------------------------------------------
(* Properties of deferred updates                                          *)

\* the first tick has passed over the value stored for `m`: the stride check
\* failed and the mesh still holds the old value
passedOver(m) ==
    /\ last.op = "tick" /\ frameCounter = 1
    /\ m \notin PriorityMorphs
    /\ lodLevel <= 1
    /\ frameCounter % qualityPresets(quality).updateFrequency # 0
    /\ influences[m] # morphStates[m]

\* C25 (as stated): a non-priority value accepted by setMorph and passed
\* over by a tick whose stride check fails is deferred, not lost: with
\* lodLevel <= 1 and no further update for the channel, a later tick writes
\* it, so the mesh influence comes to equal the stored state.
C25_DeferredNotLost ==
    \A m \in {"V_Open", "Brow_L"} :
        [](passedOver(m)
           => <>(\/ influences[m] = morphStates[m]
                 \/ (last.op = "setMorph" /\ last.name = m)))

----------------------------------------------------------------------------
(* Properties of a stream of frames                                        *)

\* the delta of the producer's latest frame is out and the client has
\* handled every message sent
streamHandled == frameNo = 2 /\ sent = <<>>

----------------------------------------------------------------------------
(* Properties of the connection                                            *)

\* sockets that are connecting or open, whether this.ws references them or
\* not
socketsUp ==
    others.connecting + others.open
        + (IF ws \in {"connecting", "open"} THEN 1 ELSE 0)

\* C29 (as stated): after disconnect() no connection is opened
\* automatically: until the user calls connect() the client has no socket
\* and connected is false.
C29_StaysDisconnected ==
    manual => (ws = "none" /\ ~connected)

\* C30 (as stated): under every interleaving of connect() calls, reconnect
\* timers and socket events at most one socket is connecting or open, and
\* connected is true only while the socket this.ws references is open.
C30_OneSocketAndFlagAgrees ==
    /\ socketsUp <= 1
    /\ connected => ws = "open"

\* a socket of the client has just closed
socketClosed == stream.op \in {"close", "otherClose"}

\* C24 (as stated): whenever the socket closes a new attempt is scheduled
\* after the reconnect interval, again after every further close, so that
\* once the server accepts connections the client is connected again.
C24_ReconnectsAfterClose ==
    /\ [][socketClosed' /\ stream'.op # stream.op => timers' = timers + 1]_vars
    /\ [](socketClosed => <>(connected /\ ws = "open"))

----------------------------------------------------------------------------
(* Properties of the animation loop                                        *)

\* an update has just set a target over an open socket, early enough for
\* its transition to end within the clock of the model
targetReceived ==
    /\ stream.op \in {"keyframe", "delta"}
    /\ ws = "open" /\ enableInterpolation
    /\ interpolationStartTime + interpolationDuration <= MaxNow

\* C31 (as stated): while the client is connected with interpolation
\* enabled, every received target is eventually reflected in
\* currentBlendshapes, also after a disconnect() followed by connect() or
\* by a reconnection: unless the client leaves the open socket or a later
\* update restarts the transition, current comes to equal the target.
C31_TargetEventuallyShown ==
    [](targetReceived
       => <>(\/ currentBlendshapes = targetBlendshapes
             \/ ws # "open"
             \/ interpolationStartTime + interpolationDuration > MaxNow))

----------------------------------------------------------------------------
(* Properties of the direct update                                         *)

\* two channel maps hold the same value on every channel (absent reads 0)
sameValues(a, b) == \A c \in Channels : valueOr0(a, c) = valueOr0(b, c)

\* C32 (as stated): while interpolation is disabled, currentBlendshapes
\* equals targetBlendshapes right after every handled blendshape update and
\* stays equal on every animation frame that follows, also when
\* setInterpolationEnabled(false) was called with a transition in flight.
C32_DirectUpdateHolds ==
    /\ [][(targetSet /\ ~enableInterpolation)
          => sameValues(currentBlendshapes', targetBlendshapes')]_vars
    /\ [][(frameStep /\ ~enableInterpolation
             /\ sameValues(currentBlendshapes, targetBlendshapes))
          => sameValues(currentBlendshapes', targetBlendshapes')]_vars

----------------------------------------------------------------------------
(* Properties of resetAll and interpolateMorphs                            *)

\* every stored state and every influence is 0 and nothing waits for a tick
allAtRest ==
    /\ \A m \in morphMap : morphStates[m] = 0 /\ influences[m] = 0
    /\ dirtyMorphs = {}
    /\ activeMorphs = {}

\* C33 (as stated): after resetAll every stored state and every mesh
\* influence is 0 and the active and dirty sets are empty, and the
\* influences stay 0 under every following tick and interpolateMorphs(alpha)
\* until a later setMorph is admitted.
C33_ResetStaysAtRest ==
    /\ [](last.op = "resetAll" => allAtRest)
    /\ [][(allAtRest /\ last'.op \in {"tick", "interpolateMorphs"})
          => \A m \in morphMap : influences'[m] = 0]_vars

\* the first tick has just run over `m`, which an update had moved from 0 to
\* 0.06
movedThenTicked(m) ==
    /\ last.op = "tick" /\ frameCounter = 1
    /\ morphStates[m] = 600

\* C34 (as stated): after updateMorphs has changed a morph and tick has run,
\* interpolateMorphs(alpha) with alpha below 1 writes an influence strictly
\* between the morph's value before the update and its new value, and it
\* writes no non-priority influence that the stride and LOD check of the
\* tick withholds.
C34_BlendsAndRespectsScheduler ==
    /\ [][(last'.op = "interpolateMorphs" /\ last'.value < 10000)
          => \A m \in morphMap :
                movedThenTicked(m)
                => (0 < influences'[m] /\ influences'[m] < 600)]_vars
    /\ [][last'.op = "interpolateMorphs"
          => \A m \in morphMap \ PriorityMorphs :
                ~shouldUpdateMorph(m, frameCounter)
                => influences'[m] = influences[m]]_vars

----------------------------------------------------------------------------
(* Properties of the settings sent to the server                           *)

MonitorConfigs ==
    {[updateInterval |-> 1, historySize |-> 2, trackHistory |-> t] : t \in BOOLEAN}

MonitorNext ==
    \/ Begin
    \/ End
    \/ UpdateStats
    \/ Reset
    \/ (now < MonitorEnd /\ AdvanceTime(1))

InitMonitor ==
    /\ MorphInit({"V_Open"}, {"high"}, {TRUE}, {TRUE})
    /\ last = [NoDetail EXCEPT !.op = "init"]
    /\ ClientInit({TRUE})
    /\ ProducerInit({EmptyMap})
    /\ MonitorInit(MonitorConfigs, {FALSE})

SpecMonitor == InitMonitor /\ [][MonitorNext]_vars

\* the step is a call on the monitor (the clock stands still during a call)
monitorCalled == now' = now

\* the step is an end(), and one that updated the statistics
endCalled == monitorCalled /\ monitorLast'.op = "end"
statsUpdated == monitorCalled /\ monitorLast'.stats

\* the windows never grow past their sizes
windowsBounded ==
    /\ Len(frameTimes) <= FrameWindow
    /\ \A k \in HistoryKeys : Len(history[k]) <= monitorConfig.historySize

\* end() leaves the most recent frame times, in the order they arrived
keepsMostRecent ==
    endCalled =>
        LET arrived == Append(frameTimes, minus(now, frameStartTime))
        IN  frameTimes' = SubSeq(arrived, Len(arrived) - Len(frameTimes') + 1, Len(arrived))

\* a statistics update starts the counters again
countersReset ==
    statsUpdated =>
        /\ frameCount' = 0
        /\ metrics'.frameTimeMin = Infinity
        /\ metrics'.frameTimeMax = 0
        /\ lastUpdateTime' = now

\* C36 (as stated): the monitor's windows are bounded in every reachable
\* state: after any sequence of begin/end/updateStats/reset calls frameTimes
\* holds at most 10 samples, the most recent ones in arrival order, each
\* history series holds at most historySize entries, and updateStats runs
\* (resetting frameCount and min/max) only when at least updateInterval ms
\* have passed since the previous statistics update.
C36_WindowsBoundedStatsOnInterval ==
    /\ [](windowsBounded)
    /\ [][keepsMostRecent /\ countersReset]_vars
    /\ [][statsUpdated => now - lastUpdateTime >= monitorConfig.updateInterval]_vars

\* C36 (amended): the windows are bounded as stated, and the statistics
\* update that end() makes runs only when at least updateInterval ms have
\* passed since the previous one; updateStats called on its own runs at any
\* time and resets the counters all the same.
C36_WindowsBoundedEndOnInterval ==
    /\ [](windowsBounded)
    /\ [][keepsMostRecent /\ countersReset]_vars
    /\ [][endCalled =>
            (monitorLast'.stats <=>
                now - lastUpdateTime >= monitorConfig.updateInterval)]_vars

\* an end() that dropped the oldest frame time of a full window, updated the
\* statistics on the interval and dropped the oldest history entry
C36_Witness ==
    /\ monitorLast.op = "end"
    /\ monitorLast.stats
    /\ monitorLast.shifted
    /\ monitorLast.trimmed
    /\ Len(frameTimes) = FrameWindow
    /\ frameTimes[1] # frameTimes[FrameWindow]
    /\ Len(history["fps"]) = monitorConfig.historySize

\* ---------------------------------------------------------------------------
\* The GPU timer: begin() and end() around each frame, the result callbacks
\* in between, dispose() at the end
\* ---------------------------------------------------------------------------

\* a monitor that updates its statistics on every frame and keeps no history
GpuConfigs == {[updateInterval |-> 0, historySize |-> 1, trackHistory |-> FALSE]}

GpuNext ==
    \/ (~disposed /\ Begin)
    \/ (~disposed /\ End)
    \/ \E available \in BOOLEAN : GpuCallback(available)
    \/ Dispose

InitGpu ==
    /\ MorphInit({"V_Open"}, {"high"}, {TRUE}, {TRUE})
    /\ last = [NoDetail EXCEPT !.op = "init"]
    /\ ClientInit({TRUE})
    /\ ProducerInit({EmptyMap})
    /\ MonitorInit(GpuConfigs, {TRUE})

\* every callback handed to setTimeout runs, and the page disposes of the
\* monitor in the end
SpecGpu ==
    /\ InitGpu
    /\ [][GpuNext]_vars
    /\ WF_vars(\E available \in BOOLEAN : GpuCallback(available))
    /\ WF_vars(Dispose)

\* the queries created and not deleted
undeleted == {q \in DOMAIN queries : queries[q] # "deleted"}

created(q) == q \in DOMAIN queries
deleted(q) == created(q) /\ queries[q] = "deleted"

\* the step is a result callback that found a query to read
callbackRead == monitorLast'.op = "callback" /\ callbacks' = callbacks - 1
                    /\ monitorLast'.read # "none"

\* C37: GPU timer queries are used one at a time and never leaked: under any
\* interleaving of begin(), end() and the deferred result callback at most
\* one created query is undeleted at any time, the callback only reads a
\* query that has been ended, and every query beginGPUTimer creates is
\* deleted in the end, by the callback or by dispose().
C37_OneQueryNeverLeaked ==
    /\ [](Cardinality(undeleted) <= 1)
    /\ [][callbackRead => monitorLast'.read = "ended"]_vars
    /\ \A q \in 1..MaxQueries :
          [](created(q) => <>deleted(q))

=============================================================================
